---------------------------- MODULE Spec2Model ----------------------------
(***************************************************************************)
(* Model of the BSK data synchronisation engine:                           *)
(*   backend/scheduler/sync_scheduler.py  (sync guard, sync_all_tables,    *)
(*                                         regeneration, leader election)  *)
(*   backend/api/sync.py                  (sync_data, sync_table_paginated,*)
(*                                         upsert_data, insert_only)       *)
(*   backend/api/admin.py                 (manual trigger)                 *)
(*                                                                         *)
(* The module holds one specification per part of the program:             *)
(*   SpecSched  - one worker process: the threads that run sync_all_tables *)
(*                and regenerate_static_files                              *)
(*   SpecMeta   - sync_data and the sync_metadata cursor rows              *)
(*   SpecDump   - database sessions replacing a Dump-All table             *)
(*   SpecElect  - worker processes electing the scheduler                  *)
(* Each specification leaves the variables of the other parts unchanged.   *)
(***************************************************************************)
EXTENDS Integers, Sequences, FiniteSets, TLC

VARIABLES
    \* ---- one worker process (sync_scheduler.py module globals) ----
    sync_lock,          \* _sync_lock: the thread that holds it, or NoThread
    sync_in_progress,   \* _sync_in_progress
    tpc,                \* position of every thread that can run sync_all_tables
    results,            \* per thread: the `results` list of its current run
    scheduled,          \* per thread: its current run called scheduler.add_job
    skipped,            \* per thread: the holder of the guard its call returned at,
                        \* while that holder's run lasts; else NoThread
    scheduler_running,  \* scheduler.start() was called in this process
    regen_job,          \* the job 'one_time_static_generation': "none"/"pending"
    regen_wait,         \* the run that must return before the job's date trigger is due
    regen_pc,           \* regenerate_static_files: "idle" / "running"
    last_trigger,       \* outcome of the last trigger_sync_now call
    run_end,            \* how the latest run left its try block: "none" (no run
                        \* yet), "raising" (an exception is passing through the
                        \* finally block), "raised", "returned"
    \* ---- the admin module of the same process (api/admin.py) ----
    admin_sync_in_progress, \* the name _sync_in_progress of api/admin.py
    last_status,        \* the answer of the last get_scheduler_status call
    \* ---- the sync_metadata table and the clock ----
    sync_metadata,      \* set of SyncMetadata rows
    today,              \* datetime.now(), as a day number
    last_call,          \* the last sync_data call: request, outcome, what it saw
    \* ---- database sessions replacing Dump-All tables ----
    committed,          \* per Dump-All table: the keys of its committed rows
    adv_locks,          \* pg advisory locks held by the connection a session
                        \* works on: set of <<lock id, session>>
    idle_locks,         \* pg advisory locks held by a connection that is back in
                        \* its process's pool: set of <<lock id, session that left it>>
    hash_seed,          \* per session: the string-hash seed of its process
    spare_connection,   \* per session: the pool of its process holds a further
                        \* idle connection
    dpc,                \* per session: its position in sync_data
    run,                \* per session: the locals of its current run
    remote,             \* the records the remote API answers a Dump-All call with
    \* ---- worker processes electing the scheduler ----
    lock_path,          \* the inode at /tmp/bsk_scheduler.lock, or NoFile
    inode_content,      \* per inode: the pid written in it, or NoPid (empty)
    flock_holder,       \* per inode: the worker holding its flock, or NoWorker
    inodes_used,        \* number of files created so far
    wpc,                \* per worker: its position
    handle,             \* per worker: the inode of lock_file_handle, or NoFile
    locked_pid,         \* per worker: the pid it read from the lock file
    sched_started,      \* per worker: it registered weekly_sync and started
                        \* its scheduler
    \* ---- one Paginated fetch (sync_table_paginated, Pattern B) ----
    fpc,                \* its position: "idle", "meta", "page", "done", "failed"
    total_records,      \* the announced total, as the code took it
    page_lens,          \* the number of records of every page call answered so far
    consecutive_empty,  \* consecutive_empty
    total_upserted,     \* total_upserted
    \* ---- the token manager (utils/jwt_auth.py) and call_sync_api ----
    token,              \* jwt_manager.token: None or Some(token)
    token_expiry,       \* jwt_manager.token_expiry: None or Some(hour)
    issued,             \* number of tokens the login endpoint has issued
    clock,              \* datetime.now(), in hours
    last_get,           \* the last get_token call: what it found and did
    last_api,            \* the last call_sync_api call: what it did
    \* ---- one manual_upsert call and the table it writes (api/sync.py) ----
    upc,                \* position of the call: "idle" / "query" / "write" / "done"
    items,              \* the batch the call was given
    incoming_keys,      \* keys of the records make_key accepted
    invalid_records,    \* records make_key rejected
    existing_keys,      \* incoming keys found in the table
    to_insert,          \* records to insert
    to_update,          \* records to update
    counts,             \* insert_success, insert_failed, update_success, update_failed
    table_rows,               \* the table: set of <<key, value>>
    statements,         \* INSERT and UPDATE statements the call executed
    upsert_result,      \* what the call returned, NoResult before
    \* ---- one upsert_data call (api/sync.py:336-415) ----
    upsert_call         \* the table name it was given, and whether it raised

schedVars == <<sync_lock, sync_in_progress, tpc, results, scheduled, skipped,
               scheduler_running, regen_job, regen_wait, regen_pc, last_trigger,
               run_end>>
statusVars == <<admin_sync_in_progress, last_status>>
metaVars  == <<sync_metadata, today, last_call>>
dumpVars  == <<committed, adv_locks, idle_locks, hash_seed, spare_connection, dpc, run,
               remote>>
electVars == <<lock_path, inode_content, flock_holder, inodes_used, wpc, handle,
               locked_pid, sched_started>>
fetchVars == <<fpc, total_records, page_lens, consecutive_empty, total_upserted>>
coreVars  == <<schedVars, statusVars, metaVars, dumpVars, electVars>>
authVars  == <<token, token_expiry, issued, clock, last_get, last_api>>
mergeVars == <<upc, items, incoming_keys, invalid_records, existing_keys,
               to_insert, to_update, counts, table_rows, statements, upsert_result>>
restVars  == <<fetchVars, authVars, mergeVars, upsert_call>>
notFetch  == <<coreVars, authVars, mergeVars, upsert_call>>
notAuth   == <<coreVars, fetchVars, mergeVars, upsert_call>>
notUpsert == <<coreVars, fetchVars, authVars>>
notMerge  == <<notUpsert, upsert_call>>
vars      == <<coreVars, restVars>>
notSched  == <<statusVars, metaVars, dumpVars, electVars, restVars>>
notMeta   == <<schedVars, statusVars, dumpVars, electVars, restVars>>

(***************************************************************************)
(* Bounds of the model                                                     *)
(***************************************************************************)
MaxManual == 2      \* manual-sync threads that can exist at the same time
MaxDay == 2         \* days the clock can show
MaxCalls == 2       \* sync_data calls in one behaviour of SpecMeta
MaxRecords == 2     \* records in one response of the remote API
MaxFiles == 3       \* lock files created in one behaviour of SpecElect
MaxLogins == 2      \* tokens the login endpoint issues in one behaviour
MaxClock == 2       \* hours the clock can show
MaxTotal == 10      \* the largest total the meta call announces
MaxBatch == 2       \* records in one batch given to manual_upsert

(***************************************************************************)
(* Tables (api/sync.py:42-46, scheduler/sync_scheduler.py:41-47)           *)
(***************************************************************************)
DIRECT_TABLES == {"bsk_master", "service_master", "district"}
PAGINATED_TABLES == {"provision", "citizen_master"}
ALL_SYNCABLE_TABLES == DIRECT_TABLES \cup PAGINATED_TABLES

TABLES_TO_SYNC ==
    <<"bsk_master", "district", "service_master", "provision", "citizen_master">>

\* An optional value (a nullable column, an optional request field) is the
\* empty set for None / NULL and the singleton {v} for the value v.
None == {}
Some(v) == {v}

(***************************************************************************)
(* sync_data: name resolution (api/sync.py:572-578).                       *)
(* target.replace("ml_", "") when the name starts with "ml_", and the one  *)
(* special case "services"; given here on the names the model requests.    *)
(***************************************************************************)
StripMl(name) ==
    CASE name = "ml_bsk_master"     -> "bsk_master"
      [] name = "ml_district"       -> "district"
      [] name = "ml_provision"      -> "provision"
      [] name = "ml_citizen_master" -> "citizen_master"
      [] name = "ml_service_master" -> "service_master"
      [] OTHER                      -> name

ExternalName(target_table) ==
    IF target_table = "services" THEN "service_master" ELSE StripMl(target_table)

IsSyncable(target_table) == ExternalName(target_table) \in ALL_SYNCABLE_TABLES

(***************************************************************************)
(* sync_data: the cursor rows (api/sync.py:603-642, database/models.py)    *)
(***************************************************************************)
\* db.query(SyncMetadata).filter(SyncMetadata.table_name == target_table)
MetadataRows(rows, target_table) == {r \in rows : r.table_name = target_table}

\* .first()
FirstRow(rows, target_table) ==
    IF MetadataRows(rows, target_table) = {} THEN None
    ELSE Some(CHOOSE r \in MetadataRows(rows, target_table) : TRUE)

\* SyncMetadata(table_name=target_table): every other column NULL
NewRow(target_table) ==
    [table_name |-> target_table, last_sync_timestamp |-> None,
     last_sync_from_date |-> None, total_records |-> None,
     last_sync_status |-> "NULL"]

\* api/sync.py:606-619: load or create the row, set it to SUCCESS, commit
MetadataOnSuccess(rows, target_table, total_processed, end_date, now) ==
    LET found    == FirstRow(rows, target_table)
        metadata == IF found = None THEN NewRow(target_table)
                    ELSE CHOOSE r \in found : TRUE
        updated  == [metadata EXCEPT
                        !.last_sync_timestamp = Some(now),
                        !.total_records = Some(total_processed),
                        !.last_sync_status = "SUCCESS",
                        !.last_sync_from_date =
                            IF ExternalName(target_table) \in PAGINATED_TABLES
                            THEN Some(end_date) ELSE @]
    IN  (rows \ {metadata}) \cup {updated}

\* api/sync.py:630-639: the except branch
MetadataOnFailure(rows, target_table, now) ==
    LET found == FirstRow(rows, target_table)
    IN  IF found # None
        THEN LET metadata == CHOOSE r \in found : TRUE
             IN  (rows \ {metadata}) \cup
                 {[metadata EXCEPT !.last_sync_status = "FAILED",
                                   !.last_sync_timestamp = Some(now)]}
        ELSE rows

(***************************************************************************)
(* sync_data: the date window of a Paginated table (api/sync.py:580-601)   *)
(***************************************************************************)
DEFAULT_FROM_DATE == 0      \* "2024-01-01"
NONE_TEXT == -1             \* str(None) = "None", the text of a NULL date

OptValue(opt) == CHOOSE v \in opt : TRUE

\* str(metadata.last_sync_from_date)
StrOfDate(column) == IF column = None THEN NONE_TEXT ELSE OptValue(column)

\* end_date = request.end_date if request.end_date else today_str
EffectiveEndDate(request, now) ==
    IF request.end_date # None THEN OptValue(request.end_date) ELSE now

EffectiveFromDate(request, rows) ==
    LET found == FirstRow(rows, request.target_table)
        from_date ==
            IF request.start_date = None /\ found # None /\ ~request.force_full
            THEN Some(StrOfDate(OptValue(found).last_sync_from_date))
            ELSE request.start_date
    IN  IF from_date = None THEN DEFAULT_FROM_DATE ELSE OptValue(from_date)

\* The outcome of sync_table_paginated as sync_data sees it: it returned
\* total_processed, or it raised.
Returned(n) == [raised |-> FALSE, total |-> n]
Raised == [raised |-> TRUE, total |-> 0]

\* api/sync.py:603-642: the cursor rows after a sync_data call whose
\* sync_table_paginated ended in `outcome`
SyncDataRows(rows, request, outcome, now) ==
    IF outcome.raised
    THEN MetadataOnFailure(rows, request.target_table, now)
    ELSE MetadataOnSuccess(rows, request.target_table, outcome.total,
                           EffectiveEndDate(request, now), now)

\* SyncRequest (api/sync.py:49-53)
SyncRequest(target_table, start_date, end_date, force_full) ==
    [target_table |-> target_table, start_date |-> start_date,
     end_date |-> end_date, force_full |-> force_full]

(***************************************************************************)
(* One worker process: sync_all_tables, trigger_sync_now,                  *)
(* regenerate_static_files (scheduler/sync_scheduler.py)                   *)
(*                                                                         *)
(* Thread 0 is the APScheduler executor thread of the job 'weekly_sync'    *)
(* (max_instances=1: one instance at a time); threads 1..MaxManual are the *)
(* "manual-sync" threads started by trigger_sync_now.                      *)
(* A thread's position names the statement it executes next:               *)
(*   "idle"       not in sync_all_tables                                   *)
(*   "entry"      _sync_lock.acquire(blocking=False)           (line 64)   *)
(*   "setflag"    _sync_in_progress = True                     (line 68)   *)
(*   "loop"       the next table of the for loop               (line 78)   *)
(*   "summary"    the counts and the regeneration job          (line 138)  *)
(*   "clearflag"  finally: db.close(); _sync_in_progress=False (line 176)  *)
(*   "release"    _sync_lock.release()                         (line 178)  *)
(***************************************************************************)
NoThread == -1
CronThread == 0
Threads == 0..MaxManual
ManualThreads == 1..MaxManual

AcquireAlways(lock) == TRUE

\* _sync_lock.acquire(blocking=False): the lock is taken iff it is free
AcquireSucceeds(lock) == lock = NoThread

\* line 64-66: a call that does not get the lock returns
Entry(t) ==
    /\ tpc[t] = "entry"
    /\ IF AcquireSucceeds(sync_lock)
       THEN /\ sync_lock' = t
            /\ tpc' = [tpc EXCEPT ![t] = "setflag"]
            /\ skipped' = [skipped EXCEPT ![t] = NoThread]
       ELSE /\ sync_lock' = sync_lock
            /\ tpc' = [tpc EXCEPT ![t] = "idle"]
            /\ skipped' = [skipped EXCEPT ![t] = sync_lock]
    /\ UNCHANGED <<sync_in_progress, results, scheduled, scheduler_running,
                   regen_job, regen_wait, regen_pc, last_trigger, run_end, notSched>>

\* line 68-75
SetFlag(t) ==
    /\ tpc[t] = "setflag"
    /\ sync_in_progress' = TRUE
    /\ results' = [results EXCEPT ![t] = <<>>]
    /\ tpc' = [tpc EXCEPT ![t] = "loop"]
    /\ UNCHANGED <<sync_lock, scheduled, skipped, scheduler_running, regen_job,
                   regen_wait, regen_pc, last_trigger, run_end, notSched>>

AfterTableBreak(done, status) ==
    IF done = Len(TABLES_TO_SYNC) \/ status = "failed" THEN "summary" ELSE "loop"

\* line 78, 120-131: the loop goes on to the next table after a success and
\* after a failure (`continue`), and ends after the last table
AfterTable(done, status) ==
    IF done = Len(TABLES_TO_SYNC) THEN "summary" ELSE "loop"

\* line 78-131: one iteration.  sync_endpoint(request, db) returns or raises
\* (sync_data turns every failure into an HTTPException, which the `except
\* Exception` of line 120 catches); what the call does to the database is
\* the subject of SpecMeta and SpecDump.
SyncOneTable(t) ==
    /\ tpc[t] = "loop"
    /\ LET table == TABLES_TO_SYNC[Len(results[t]) + 1]
       IN  \E status \in {"success", "failed"} :
             /\ results' = [results EXCEPT ![t] =
                              Append(@, [table |-> table, status |-> status])]
             /\ tpc' = [tpc EXCEPT ![t] = AfterTable(Len(results[t]) + 1, status)]
    /\ UNCHANGED <<sync_lock, sync_in_progress, scheduled, skipped,
                   scheduler_running, regen_job, regen_wait, regen_pc,
                   last_trigger, run_end, notSched>>

\* line 138: success_count
SuccessCount(res) == Cardinality({i \in 1..Len(res) : res[i].status = "success"})
FailedCount(res) == Cardinality({i \in 1..Len(res) : res[i].status = "failed"})

SchedulesOnlyIfNoFailure(res) ==
    Cardinality({i \in 1..Len(res) : res[i].status = "failed"}) = 0

\* line 154: `if success_count > 0`
SchedulesRegeneration(res) == SuccessCount(res) > 0

\* line 138-173: scheduler.add_job(regenerate_static_files, DateTrigger(now +
\* STATIC_REGEN_DELAY_HOURS), id='one_time_static_generation',
\* replace_existing=True).  The job is due once the delay has passed, which
\* is after this run has returned.  The statements of line 155-171
\* (pytz_timezone(SCHEDULER_TIMEZONE), add_job) return or raise; an exception
\* leaves the try block through the finally block of line 175.
Summary(t) ==
    /\ tpc[t] = "summary"
    /\ IF SchedulesRegeneration(results[t])
       THEN \/ /\ regen_job' = "pending"
               /\ regen_wait' = t
               /\ scheduled' = [scheduled EXCEPT ![t] = TRUE]
               /\ run_end' = run_end
            \/ /\ run_end' = "raising"
               /\ UNCHANGED <<regen_job, regen_wait, scheduled>>
       ELSE UNCHANGED <<regen_job, regen_wait, scheduled, run_end>>
    /\ tpc' = [tpc EXCEPT ![t] = "clearflag"]
    /\ UNCHANGED <<sync_lock, sync_in_progress, results, skipped,
                   scheduler_running, regen_pc, last_trigger, notSched>>

FlagAfterReturnOnly(end) == end = "raising"

\* line 175-177: the finally block resets the flag however the try block ended
FlagAfterFinally(end) == FALSE

\* line 175-177
ClearFlag(t) ==
    /\ tpc[t] = "clearflag"
    /\ sync_in_progress' = FlagAfterFinally(run_end)
    /\ tpc' = [tpc EXCEPT ![t] = "release"]
    /\ UNCHANGED <<sync_lock, results, scheduled, skipped, scheduler_running,
                   regen_job, regen_wait, regen_pc, last_trigger, run_end, notSched>>

\* line 178-179: the run returns; its locals are gone
Release(t) ==
    /\ tpc[t] = "release"
    /\ sync_lock' = NoThread
    /\ tpc' = [tpc EXCEPT ![t] = "idle"]
    /\ results' = [results EXCEPT ![t] = <<>>]
    /\ scheduled' = [scheduled EXCEPT ![t] = FALSE]
    /\ regen_wait' = IF regen_wait = t THEN NoThread ELSE regen_wait
    /\ skipped' = [u \in Threads |-> IF skipped[u] = t THEN NoThread ELSE skipped[u]]
    /\ run_end' = IF run_end = "raising" THEN "raised" ELSE "returned"
    /\ UNCHANGED <<sync_in_progress, scheduler_running, regen_job,
                   regen_pc, last_trigger, notSched>>

\* A sync_all_tables run of a manual thread is in flight from the moment the
\* thread holds the guard until it clears the in-progress flag.
InFlight(t) == tpc[t] \in {"setflag", "loop", "summary", "clearflag"}

\* line 364: `if _sync_in_progress: raise RuntimeError`
TriggerRejected(flag) == flag

\* trigger_sync_now (line 362-369), called by manual_trigger_sync
\* (api/admin.py:27-45): 409 when the flag is set, else a new thread
TriggerSyncNow ==
    /\ \/ /\ TriggerRejected(sync_in_progress)
          /\ last_trigger' = [result |-> "rejected",
                              in_flight |-> \E m \in ManualThreads : InFlight(m)]
          /\ tpc' = tpc
       \/ /\ ~TriggerRejected(sync_in_progress)
          /\ \E t \in ManualThreads :
               /\ tpc[t] = "idle"
               /\ \A u \in ManualThreads : u < t => tpc[u] # "idle"
               /\ tpc' = [tpc EXCEPT ![t] = "entry"]
          /\ last_trigger' = [result |-> "started",
                              in_flight |-> \E m \in ManualThreads : InFlight(m)]
    /\ UNCHANGED <<sync_lock, sync_in_progress, results, scheduled, skipped,
                   scheduler_running, regen_job, regen_wait, regen_pc, run_end, notSched>>

\* The cron trigger of 'weekly_sync' fires (line 320-334); the job exists
\* only where start_scheduler registered it and started the scheduler.
CronFire ==
    /\ scheduler_running
    /\ tpc[CronThread] = "idle"
    /\ tpc' = [tpc EXCEPT ![CronThread] = "entry"]
    /\ UNCHANGED <<sync_lock, sync_in_progress, results, scheduled, skipped,
                   scheduler_running, regen_job, regen_wait, regen_pc,
                   last_trigger, run_end, notSched>>

\* The date trigger of 'one_time_static_generation' is due: the started
\* scheduler runs regenerate_static_files (line 182-227) on an executor
\* thread and drops the one-time job.
RegenStart ==
    /\ scheduler_running
    /\ regen_job = "pending"
    /\ regen_wait = NoThread
    /\ regen_pc = "idle"
    /\ regen_job' = "none"
    /\ regen_pc' = "running"
    /\ UNCHANGED <<sync_lock, sync_in_progress, tpc, results, scheduled, skipped,
                   scheduler_running, regen_wait, last_trigger, run_end, notSched>>

RegenEnd ==
    /\ regen_pc = "running"
    /\ regen_pc' = "idle"
    /\ UNCHANGED <<sync_lock, sync_in_progress, tpc, results, scheduled, skipped,
                   scheduler_running, regen_job, regen_wait, last_trigger, run_end, notSched>>

(***************************************************************************)
(* get_scheduler_status (api/admin.py:48-92).  api/admin.py line 10-14     *)
(* imports the name _sync_in_progress from the scheduler module: the       *)
(* import binds a name of the admin module to the value the flag has when  *)
(* the admin module is loaded, which is before any run; the `global`       *)
(* assignments of sync_all_tables rebind the scheduler module's name.      *)
(***************************************************************************)
NoStatus == [asked |-> FALSE, sync_in_progress |-> FALSE, flag_set |-> FALSE]

\* a run has set the in-progress flag and not yet reset it
FlagSetByRun == \E t \in Threads : tpc[t] \in {"loop", "summary", "clearflag"}

\* api/admin.py line 84-91: the answer carries the admin module's name
GetSchedulerStatus ==
    /\ last_status' = [asked |-> TRUE,
                       sync_in_progress |-> admin_sync_in_progress,
                       flag_set |-> FlagSetByRun]
    /\ UNCHANGED <<admin_sync_in_progress, schedVars, metaVars, dumpVars, electVars,
                   restVars>>

(***************************************************************************)
(* sync_data as one operation on the cursor rows (api/sync.py:559-642).    *)
(* The request and the outcome of sync_table_paginated (it returned a      *)
(* count, or the fetch or the merge raised) are the inputs.                *)
(***************************************************************************)
\* setup_database_complete.py:412-440 (initialize_sync_metadata): one row per
\* name of its list, status 'NEVER_SYNCED', the other columns NULL
SetupRows ==
    {[NewRow(name) EXCEPT !.last_sync_status = "NEVER_SYNCED"] :
        name \in {"ml_citizen_master", "ml_provision", "ml_district", "ml_bsk_master"}}

\* per Paginated table, the end date of its most recent successful run
SuccessEndAfter(ends, request, outcome, now) ==
    IF ~outcome.raised /\ ExternalName(request.target_table) \in PAGINATED_TABLES
    THEN [ends EXCEPT ![ExternalName(request.target_table)] =
                         Some(EffectiveEndDate(request, now))]
    ELSE ends

NoCall ==
    [calls |-> 0, request |-> SyncRequest("", None, None, FALSE),
     outcome |-> "none", had_row |-> FALSE,
     from_date |-> DEFAULT_FROM_DATE, end_date |-> DEFAULT_FROM_DATE,
     success_end |-> [name \in PAGINATED_TABLES |-> None]]

RequestNames ==
    {"provision", "ml_provision", "services", "bsk_master", "ml_bsk_master",
     "deo_master"}

\* the dates a request can name (the clock starts at day 1; day 0 is the
\* default "2024-01-01")
OptionalStart == {None, Some(1), Some(2)}
OptionalEnd == {None, Some(2)}

SyncData(request, outcome) ==
    /\ last_call.calls < MaxCalls
    /\ IF ~IsSyncable(request.target_table)
       THEN \* line 577-578: HTTP 400 before anything is read or written
            /\ sync_metadata' = sync_metadata
            /\ last_call' = [NoCall EXCEPT !.calls = last_call.calls + 1,
                                           !.request = request,
                                           !.outcome = "rejected",
                                           !.success_end = last_call.success_end]
       ELSE /\ sync_metadata' = SyncDataRows(sync_metadata, request, outcome, today)
            /\ last_call' =
                 [calls |-> last_call.calls + 1,
                  request |-> request,
                  outcome |-> IF outcome.raised THEN "failed" ELSE "success",
                  had_row |-> MetadataRows(sync_metadata, request.target_table) # {},
                  from_date |-> IF ExternalName(request.target_table) \in PAGINATED_TABLES
                                THEN EffectiveFromDate(request, sync_metadata)
                                ELSE DEFAULT_FROM_DATE,
                  end_date |-> EffectiveEndDate(request, today),
                  success_end |-> SuccessEndAfter(last_call.success_end, request,
                                                  outcome, today)]
    /\ today' = today
    /\ UNCHANGED notMeta

\* a day passes
NextDay ==
    /\ today < MaxDay
    /\ today' = today + 1
    /\ UNCHANGED <<sync_metadata, last_call, notMeta>>

(***************************************************************************)
(* Database sessions replacing a Dump-All table: sync_data ->              *)
(* sync_table_paginated (Pattern A) -> upsert_data -> insert_only          *)
(* (api/sync.py:438-477, 336-381, 159-185, 603-642).                       *)
(*                                                                         *)
(* A session belongs to a process; hash(str) of a process is salted with   *)
(* the seed the interpreter drew at start-up, so sessions of one process   *)
(* (and of processes forked from one parent) share a seed and              *)
(* independently started processes need not.                               *)
(* A session's position names what it does next:                           *)
(*   "idle"       no sync_data call                                        *)
(*   "fetch"      call_sync_api(table_name, {})               (line 442)   *)
(*   "lock"       SELECT pg_advisory_lock(lock_id)            (line 457)   *)
(*   "delete"     begin_nested; table.delete(); flush         (line 460)   *)
(*   "insert"     insert_only: the next record                (line 170)   *)
(*   "sp_commit"  truncate_savepoint.commit(); return         (line 467)   *)
(*   "unlock"     finally: SELECT pg_advisory_unlock(lock_id) (line 476)   *)
(*   "meta"       sync_data: cursor row and db.commit()       (line 606)   *)
(*   "done"       sync_data returned or raised                             *)
(***************************************************************************)
NoSession == 0
Sessions == {1, 2}
HashSeeds == {0, 1}
Keys == {1, 2}
DumpTables == {"bsk_master", "district"}

\* model.__table__.name (database/models.py:45, 74, 83)
TableName(table_name) ==
    CASE table_name = "bsk_master"     -> "ml_bsk_master"
      [] table_name = "district"       -> "ml_district"
      [] table_name = "service_master" -> "services"

\* hash(name) of a str: a function of the text and of the process's seed
NameCode(name) ==
    CASE name = "ml_bsk_master" -> 11
      [] name = "ml_district"   -> 12
      [] name = "services"      -> 13

StrHash(seed, name) == seed * 1000003 + NameCode(name)

LOCK_MODULUS == 2147483647

\* line 454: lock_id = hash(table.name) % 2147483647
LockId(seed, table_name) == StrHash(seed, TableName(table_name)) % LOCK_MODULUS

\* pg_advisory_lock(id) returns once no other connection holds id (the lock
\* is re-entrant for the connection that holds it)
AdvisoryLockFree(locks, id, s) == \A h \in locks : h[1] = id => h[2] = s

\* A record of the response: its primary key, and what becomes of it:
\*   "ok"      the INSERT succeeds
\*   "reject"  the INSERT raises (the storage layer refuses the row)
\*   "foreign" it has no column of the table: sanitize_data drops it
Records == [key : Keys, kind : {"ok", "reject", "foreign"}]

RECURSIVE SeqsUpTo(_, _)
SeqsUpTo(S, n) ==
    IF n = 0 THEN {<<>>}
    ELSE LET shorter == SeqsUpTo(S, n - 1)
         IN  shorter \cup {Append(q, x) : q \in shorter, x \in S}

\* the primary key is unique in the source
DistinctKeys(records) ==
    \A i, j \in 1..Len(records) : records[i].key = records[j].key => i = j

Responses == {records \in SeqsUpTo(Records, MaxRecords) : DistinctKeys(records)}

\* sanitize_data (line 104-157): a record left without a column is dropped
IsKept(record) == record.kind # "foreign"
SanitizeData(data) == SelectSeq(data, IsKept)

\* db.execute(insert(table).values(record)); db.flush()
InsertSucceeds(record) == record.kind = "ok"

IdleRun ==
    [table |-> "", records |-> <<>>, deleted |-> {}, inserted |-> {},
     insert_success |-> 0, insert_failed |-> 0, returned |-> 0,
     raised |-> FALSE, before |-> {}, interfered |-> FALSE, pooled |-> FALSE]

\* sync_data, line 572-587
DumpStart(s, table) ==
    /\ dpc[s] = "idle"
    /\ dpc' = [dpc EXCEPT ![s] = "fetch"]
    /\ run' = [run EXCEPT ![s] = [IdleRun EXCEPT !.table = table,
                                                 !.before = committed[table]]]
    /\ UNCHANGED <<committed, adv_locks, idle_locks, hash_seed, spare_connection, remote,
                   schedVars, statusVars, metaVars, electVars, restVars>>

ReturnsNever(records) == FALSE

\* line 445-447: `if not records: return 0`
ReturnsOnEmpty(records) == Len(records) = 0

\* line 442-449: the call raises, or returns the records
DumpFetch(s) ==
    /\ dpc[s] = "fetch"
    /\ \/ /\ run' = [run EXCEPT ![s].raised = TRUE]
          /\ dpc' = [dpc EXCEPT ![s] = "meta"]
       \/ IF ReturnsOnEmpty(remote)
          THEN /\ run' = [run EXCEPT ![s].returned = 0]
               /\ dpc' = [dpc EXCEPT ![s] = "meta"]
          ELSE /\ run' = [run EXCEPT ![s].records = remote]
               /\ dpc' = [dpc EXCEPT ![s] = "lock"]
    /\ UNCHANGED <<committed, adv_locks, idle_locks, hash_seed, spare_connection, remote,
                   schedVars, statusVars, metaVars, electVars, restVars>>

\* line 452-457
DumpLock(s) ==
    /\ dpc[s] = "lock"
    /\ LET lock_id == LockId(hash_seed[s], run[s].table)
       IN  /\ AdvisoryLockFree(adv_locks, lock_id, s)
           /\ AdvisoryLockFree(idle_locks, lock_id, s)
           /\ adv_locks' = adv_locks \cup {<<lock_id, s>>}
    /\ dpc' = [dpc EXCEPT ![s] = "delete"]
    /\ UNCHANGED <<committed, idle_locks, hash_seed, spare_connection, run, remote,
                   schedVars, statusVars, metaVars, electVars, restVars>>

\* DELETE waits while a row it would delete is deleted by another session's
\* open transaction (row lock, released at that session's commit or rollback)
RowsUnlocked(s, table) ==
    \A u \in Sessions \ {s} :
        (dpc[u] \in {"insert", "sp_commit", "unlock", "meta"} /\ run[u].table = table)
        => run[u].deleted \cap committed[table] = {}

\* line 460-466 and upsert_data line 348-364: the delete removes the rows the
\* session sees, or raises (line 471-474: savepoint rollback, re-raise);
\* upsert_data returns 0 when sanitize_data leaves nothing; or upsert_data
\* raises (line 412-415: sanitize_data raised on a record that is no mapping,
\* a savepoint could not be opened): it calls db.rollback(), which ends the
\* session's transaction and gives its connection back to the pool, and
\* re-raises
DumpDelete(s) ==
    /\ dpc[s] = "delete"
    /\ RowsUnlocked(s, run[s].table)
    /\ \/ LET clean_data == SanitizeData(run[s].records)
          IN  /\ run' = [run EXCEPT ![s].deleted = committed[run[s].table],
                                    ![s].records = clean_data]
              /\ dpc' = [dpc EXCEPT ![s] =
                           IF Len(clean_data) = 0 THEN "sp_commit" ELSE "insert"]
       \/ /\ run' = [run EXCEPT ![s].raised = TRUE]
          /\ dpc' = [dpc EXCEPT ![s] = "unlock"]
       \/ /\ run' = [run EXCEPT ![s].raised = TRUE, ![s].pooled = TRUE]
          /\ dpc' = [dpc EXCEPT ![s] = "unlock"]
    /\ UNCHANGED <<committed, adv_locks, idle_locks, hash_seed, spare_connection, remote,
                   schedVars, statusVars, metaVars, electVars, restVars>>

\* insert_only line 170-180: a record whose INSERT raises is rolled back to
\* its savepoint and counted; the loop goes on
InsertOnlyStep(r, record) ==
    IF InsertSucceeds(record)
    THEN [r EXCEPT !.inserted = @ \cup {record.key},
                   !.insert_success = @ + 1,
                   !.records = Tail(@)]
    ELSE [r EXCEPT !.insert_failed = @ + 1,
                   !.records = Tail(@)]

DumpInsert(s) ==
    /\ dpc[s] = "insert"
    /\ run' = [run EXCEPT ![s] = InsertOnlyStep(run[s], Head(run[s].records))]
    /\ dpc' = [dpc EXCEPT ![s] =
                 IF Len(run[s].records) = 1 THEN "sp_commit" ELSE "insert"]
    /\ UNCHANGED <<committed, adv_locks, idle_locks, hash_seed, spare_connection, remote,
                   schedVars, statusVars, metaVars, electVars, restVars>>

\* insert_only line 185, upsert_data line 378-381 (skip_commit), line 467-470
DumpSavepointCommit(s) ==
    /\ dpc[s] = "sp_commit"
    /\ run' = [run EXCEPT ![s].returned = run[s].insert_success]
    /\ dpc' = [dpc EXCEPT ![s] = "unlock"]
    /\ UNCHANGED <<committed, adv_locks, idle_locks, hash_seed, spare_connection, remote,
                   schedVars, statusVars, metaVars, electVars, restVars>>

\* pg_advisory_unlock(id) releases the lock only when it runs on the
\* connection that holds it; on another one it returns false
UnlockLeavesLock(pooled, same_connection) == pooled /\ ~same_connection

\* line 475-477: the statement runs on the connection of the session's
\* transaction; after a db.rollback() the session begins a new transaction on
\* a connection it checks out of the pool, the one it had or another one
DumpUnlock(s) ==
    /\ dpc[s] = "unlock"
    /\ LET held == <<LockId(hash_seed[s], run[s].table), s>>
       IN  \E same_connection \in BOOLEAN :
             /\ ~(run[s].pooled /\ spare_connection[s]) => same_connection
             /\ adv_locks' = adv_locks \ {held}
             /\ idle_locks' = IF UnlockLeavesLock(run[s].pooled, same_connection)
                              THEN idle_locks \cup {held} ELSE idle_locks
    /\ dpc' = [dpc EXCEPT ![s] = "meta"]
    /\ UNCHANGED <<committed, hash_seed, spare_connection, run, remote,
                   schedVars, statusVars, metaVars, electVars, restVars>>

\* What db.commit() (line 619) makes of the table: the rows the session
\* deleted are gone, the rows it inserted are there.
CommittedAfter(rows, r) == (rows \ r.deleted) \cup r.inserted

\* sync_data line 603-642: after a return the cursor row is set to SUCCESS
\* and db.commit() commits it with the replace; after a raise the changes of
\* the table were rolled back and only the cursor row is committed.
DumpMeta(s) ==
    /\ dpc[s] = "meta"
    /\ LET table == run[s].table
           after == IF run[s].raised THEN committed[table]
                    ELSE CommittedAfter(committed[table], run[s])
       IN  /\ committed' = [committed EXCEPT ![table] = after]
           /\ run' = [u \in Sessions |->
                        IF u # s /\ dpc[u] # "idle" /\ run[u].table = table
                           /\ after # committed[table]
                        THEN [run[u] EXCEPT !.interfered = TRUE]
                        ELSE run[u]]
           /\ sync_metadata' =
                SyncDataRows(sync_metadata, SyncRequest(table, None, None, FALSE),
                             IF run[s].raised THEN Raised
                             ELSE Returned(run[s].returned), today)
    /\ dpc' = [dpc EXCEPT ![s] = "done"]
    /\ UNCHANGED <<adv_locks, idle_locks, hash_seed, spare_connection, remote,
                   today, last_call, schedVars, statusVars, electVars, restVars>>

\* the call is over; the session can serve the next one
DumpReturn(s) ==
    /\ dpc[s] = "done"
    /\ dpc' = [dpc EXCEPT ![s] = "idle"]
    /\ run' = [run EXCEPT ![s] = IdleRun]
    /\ UNCHANGED <<committed, adv_locks, idle_locks, hash_seed, spare_connection, remote,
                   schedVars, statusVars, metaVars, electVars, restVars>>

(***************************************************************************)
(* Worker processes electing the scheduler: start_scheduler, cleanup_lock, *)
(* signal_handler, shutdown_scheduler (scheduler/sync_scheduler.py:230-358)*)
(*                                                                         *)
(* The file system keeps one directory entry, /tmp/bsk_scheduler.lock,     *)
(* which names an inode or nothing; an unlinked inode lives on while a     *)
(* process holds it open, with its flock.  A worker's pid is its number.   *)
(* A worker's position names what it does next:                            *)
(*   "new"        not started                                              *)
(*   "open"       os.open(path, O_CREAT | O_RDWR)             (line 270)   *)
(*   "flock"      fcntl.flock(LOCK_EX | LOCK_NB)              (line 272)   *)
(*   "write_pid"  seek, truncate, write(pid), flush           (line 275)   *)
(*   "register"   handlers, add_job(weekly_sync), start       (line 281)   *)
(*   "serving"    start_scheduler returned; elected                        *)
(*   "read"       int(open(path).read().strip())              (line 294)   *)
(*   "probe"      os.kill(locked_pid, 0)                      (line 299)   *)
(*   "remove"     os.remove(path); return start_scheduler()   (line 307)   *)
(*   "standby"    start_scheduler returned; not elected                    *)
(*   "cl_unlock", "cl_close", "cl_remove"   cleanup_lock      (line 252)   *)
(*   "sig_shutdown"  signal_handler: shutdown_scheduler()     (line 263)   *)
(*   "stopped"    the signal handler returned                              *)
(*   "dead"       the process is gone                                      *)
(***************************************************************************)
NoFile == 0
NoPid == 0
NoWorker == 0
Workers == {1, 2, 3}
Inodes == 1..MaxFiles
\* the pid of a process of an earlier boot, which is gone
StalePid == 4

\* os.kill(pid, 0) succeeds: a process with that pid exists
ProcessExists(pid) == pid \in Workers /\ wpc[pid] \notin {"new", "dead"}

\* a worker process boots; its startup event calls start_scheduler
\* (main_api.py:32-137)
WorkerStart(w) ==
    /\ wpc[w] = "new"
    /\ wpc' = [wpc EXCEPT ![w] = "open"]
    /\ UNCHANGED <<lock_path, inode_content, flock_holder, inodes_used, handle,
                   locked_pid, sched_started, schedVars, statusVars, metaVars, dumpVars, restVars>>

\* line 270-271: open the file at the path, creating it when there is none
OpenLockFile(w) ==
    /\ wpc[w] = "open"
    /\ IF lock_path = NoFile
       THEN /\ inodes_used < MaxFiles
            /\ lock_path' = inodes_used + 1
            /\ inodes_used' = inodes_used + 1
            /\ inode_content' = [inode_content EXCEPT ![inodes_used + 1] = NoPid]
            /\ handle' = [handle EXCEPT ![w] = inodes_used + 1]
       ELSE /\ handle' = [handle EXCEPT ![w] = lock_path]
            /\ UNCHANGED <<lock_path, inodes_used, inode_content>>
    /\ wpc' = [wpc EXCEPT ![w] = "flock"]
    /\ UNCHANGED <<flock_holder, locked_pid, sched_started,
                   schedVars, statusVars, metaVars, dumpVars, restVars>>

FlockNeverSucceeds(holders, inode) == FALSE

\* flock(LOCK_EX | LOCK_NB) on the opened inode
FlockSucceeds(holders, inode) == holders[inode] = NoWorker

\* line 272, 290: the lock is taken, or IOError leads to the except branch
TryFlock(w) ==
    /\ wpc[w] = "flock"
    /\ IF FlockSucceeds(flock_holder, handle[w])
       THEN /\ flock_holder' = [flock_holder EXCEPT ![handle[w]] = w]
            /\ wpc' = [wpc EXCEPT ![w] = "write_pid"]
       ELSE /\ flock_holder' = flock_holder
            /\ wpc' = [wpc EXCEPT ![w] = "read"]
    /\ UNCHANGED <<lock_path, inode_content, inodes_used, handle, locked_pid,
                   sched_started, schedVars, statusVars, metaVars, dumpVars, restVars>>

\* line 275-278
WritePid(w) ==
    /\ wpc[w] = "write_pid"
    /\ inode_content' = [inode_content EXCEPT ![handle[w]] = w]
    /\ wpc' = [wpc EXCEPT ![w] = "register"]
    /\ UNCHANGED <<lock_path, flock_holder, inodes_used, handle, locked_pid,
                   sched_started, schedVars, statusVars, metaVars, dumpVars, restVars>>

\* line 281-337: atexit and signal handlers, add_job('weekly_sync'),
\* scheduler.start()
RegisterAndStart(w) ==
    /\ wpc[w] = "register"
    /\ sched_started' = [sched_started EXCEPT ![w] = TRUE]
    /\ wpc' = [wpc EXCEPT ![w] = "serving"]
    /\ UNCHANGED <<lock_path, inode_content, flock_holder, inodes_used, handle,
                   locked_pid, schedVars, statusVars, metaVars, dumpVars, restVars>>

\* line 292-295, 313-315: read the pid from the file at the path; no file,
\* or no number in it: "locked by another worker - skipping"
ReadLockFile(w) ==
    /\ wpc[w] = "read"
    /\ IF lock_path = NoFile \/ inode_content[lock_path] = NoPid
       THEN /\ wpc' = [wpc EXCEPT ![w] = "standby"]
            /\ locked_pid' = locked_pid
       ELSE /\ wpc' = [wpc EXCEPT ![w] = "probe"]
            /\ locked_pid' = [locked_pid EXCEPT ![w] = inode_content[lock_path]]
    /\ UNCHANGED <<lock_path, inode_content, flock_holder, inodes_used, handle,
                   sched_started, schedVars, statusVars, metaVars, dumpVars, restVars>>

\* line 298-305: a live pid: stand down; a dead one: the lock is stale
ProbePid(w) ==
    /\ wpc[w] = "probe"
    /\ wpc' = [wpc EXCEPT ![w] =
                 IF ProcessExists(locked_pid[w]) THEN "standby" ELSE "remove"]
    /\ UNCHANGED <<lock_path, inode_content, flock_holder, inodes_used, handle,
                   locked_pid, sched_started, schedVars, statusVars, metaVars, dumpVars, restVars>>

\* line 306-312: remove the file at the path and call start_scheduler again;
\* when the removal raises, return
RemoveStale(w) ==
    /\ wpc[w] = "remove"
    /\ IF lock_path = NoFile
       THEN /\ wpc' = [wpc EXCEPT ![w] = "standby"]
            /\ lock_path' = lock_path
       ELSE /\ wpc' = [wpc EXCEPT ![w] = "open"]
            /\ lock_path' = NoFile
    /\ handle' = [handle EXCEPT ![w] = NoFile]
    /\ UNCHANGED <<inode_content, flock_holder, inodes_used, locked_pid,
                   sched_started, schedVars, statusVars, metaVars, dumpVars, restVars>>

\* SIGTERM / SIGINT: signal_handler (line 259-263) runs cleanup_lock and then
\* shutdown_scheduler
SignalReceived(w) ==
    /\ wpc[w] = "serving"
    /\ wpc' = [wpc EXCEPT ![w] = "cl_unlock"]
    /\ UNCHANGED <<lock_path, inode_content, flock_holder, inodes_used, handle,
                   locked_pid, sched_started, schedVars, statusVars, metaVars, dumpVars, restVars>>

\* the application's shutdown event (main_api.py:140-147) runs
\* shutdown_scheduler; cleanup_lock follows at interpreter exit (atexit)
ShutdownEvent(w) ==
    /\ wpc[w] = "serving"
    /\ sched_started' = [sched_started EXCEPT ![w] = FALSE]
    /\ wpc' = [wpc EXCEPT ![w] = "cl_unlock"]
    /\ UNCHANGED <<lock_path, inode_content, flock_holder, inodes_used, handle,
                   locked_pid, schedVars, statusVars, metaVars, dumpVars, restVars>>

\* cleanup_lock, line 252
CleanupUnlock(w) ==
    /\ wpc[w] = "cl_unlock"
    /\ flock_holder' = [i \in Inodes |->
                          IF i = handle[w] /\ flock_holder[i] = w
                          THEN NoWorker ELSE flock_holder[i]]
    /\ wpc' = [wpc EXCEPT ![w] = "cl_close"]
    /\ UNCHANGED <<lock_path, inode_content, inodes_used, handle, locked_pid,
                   sched_started, schedVars, statusVars, metaVars, dumpVars, restVars>>

\* cleanup_lock, line 253
CleanupClose(w) ==
    /\ wpc[w] = "cl_close"
    /\ handle' = [handle EXCEPT ![w] = NoFile]
    /\ wpc' = [wpc EXCEPT ![w] = "cl_remove"]
    /\ UNCHANGED <<lock_path, inode_content, flock_holder, inodes_used,
                   locked_pid, sched_started, schedVars, statusVars, metaVars, dumpVars, restVars>>

\* cleanup_lock, line 254-255: remove whatever file is at the path
CleanupRemove(w) ==
    /\ wpc[w] = "cl_remove"
    /\ lock_path' = NoFile
    /\ wpc' = [wpc EXCEPT ![w] = IF sched_started[w] THEN "sig_shutdown" ELSE "dead"]
    /\ UNCHANGED <<inode_content, flock_holder, inodes_used, handle, locked_pid,
                   sched_started, schedVars, statusVars, metaVars, dumpVars, restVars>>

\* signal_handler, line 263: shutdown_scheduler(); the handler returns
SignalShutdown(w) ==
    /\ wpc[w] = "sig_shutdown"
    /\ sched_started' = [sched_started EXCEPT ![w] = FALSE]
    /\ wpc' = [wpc EXCEPT ![w] = "stopped"]
    /\ UNCHANGED <<lock_path, inode_content, flock_holder, inodes_used, handle,
                   locked_pid, schedVars, statusVars, metaVars, dumpVars, restVars>>

\* the process is killed (SIGKILL, out of memory): no handler runs, the
\* kernel closes its files and drops its flocks, the lock file stays
Killed(w) ==
    /\ wpc[w] \in {"serving", "stopped"}
    /\ wpc' = [wpc EXCEPT ![w] = "dead"]
    /\ flock_holder' = [i \in Inodes |->
                          IF flock_holder[i] = w THEN NoWorker ELSE flock_holder[i]]
    /\ handle' = [handle EXCEPT ![w] = NoFile]
    /\ sched_started' = [sched_started EXCEPT ![w] = FALSE]
    /\ UNCHANGED <<lock_path, inode_content, inodes_used, locked_pid,
                   schedVars, statusVars, metaVars, dumpVars, restVars>>

(***************************************************************************)
(* A Paginated fetch: sync_table_paginated, Pattern B (api/sync.py:482-546)*)
(* The page size is scaled down; a page call is answered with 0 to         *)
(* SYNC_PAGE_SIZE records, whatever the meta call announced.               *)
(***************************************************************************)
SYNC_PAGE_SIZE == 2
MAX_CONSECUTIVE_EMPTY == 3
INVALID_TOTAL == -1

\* what the meta response carries as total_no_of_records: a count, or a
\* value that is no count (absent with another type, negative)
Announced == {INVALID_TOTAL} \cup (0..MaxTotal)

\* line 494-497
TotalRecords(announced) == IF announced < 0 THEN 0 ELSE announced

\* line 507: math.ceil(total_records / page_size)
MaxPages(total) == (total + SYNC_PAGE_SIZE - 1) \div SYNC_PAGE_SIZE

LastPageUnbounded(total) == MaxPages(total) + 2

\* line 514: range(1, max_pages + 2) ends with page max_pages + 1
LastPage(total) == MaxPages(total) + 1

KeepEmptyCount(count) == count

\* line 535: consecutive_empty = 0
ResetEmptyCount(count) == 0

\* line 527-533 and 535: consecutive_empty after a page of n records
EmptyCountAfter(count, n) == IF n = 0 THEN count + 1 ELSE ResetEmptyCount(count)

\* line 530-532 and 541-543: the two `break`s
Breaks(count, n) ==
    \/ n = 0 /\ EmptyCountAfter(count, n) >= MAX_CONSECUTIVE_EMPTY
    \/ n > 0 /\ n < SYNC_PAGE_SIZE

\* the number of records received so far
Received(lens) ==
    LET RECURSIVE Sum(_)
        Sum(i) == IF i = 0 THEN 0 ELSE lens[i] + Sum(i - 1)
    IN  Sum(Len(lens))

FetchStart ==
    /\ fpc = "idle"
    /\ fpc' = "meta"
    /\ total_records' = 0
    /\ page_lens' = <<>>
    /\ consecutive_empty' = 0
    /\ total_upserted' = 0
    /\ UNCHANGED notFetch

\* line 486-505: the meta call raises, or answers with another flow, or
\* announces a total
FetchMeta ==
    /\ fpc = "meta"
    /\ \/ /\ fpc' = "failed"
          /\ total_records' = total_records
       \/ \E flow \in {"pagination", ""} :
            /\ fpc' = "failed"
            /\ total_records' = total_records
       \/ \E announced \in Announced :
            /\ total_records' = TotalRecords(announced)
            /\ fpc' = IF TotalRecords(announced) = 0 THEN "done" ELSE "page"
    /\ UNCHANGED <<page_lens, consecutive_empty, total_upserted, notFetch>>

\* line 514-543: one iteration for page Len(page_lens) + 1.  The page call
\* raises, or answers with n records; a non-empty page goes to upsert_data,
\* which raises or returns the number of records it wrote.
FetchPage ==
    /\ fpc = "page"
    /\ \/ /\ fpc' = "failed"
          /\ UNCHANGED <<page_lens, consecutive_empty, total_upserted>>
       \/ \E n \in 1..SYNC_PAGE_SIZE :
            /\ page_lens' = Append(page_lens, n)
            /\ fpc' = "failed"
            /\ consecutive_empty' = ResetEmptyCount(consecutive_empty)
            /\ total_upserted' = total_upserted
       \/ \E n \in 0..SYNC_PAGE_SIZE, inserted_count \in 0..SYNC_PAGE_SIZE :
            /\ inserted_count <= n
            /\ page_lens' = Append(page_lens, n)
            /\ consecutive_empty' = EmptyCountAfter(consecutive_empty, n)
            /\ total_upserted' = total_upserted + inserted_count
            /\ fpc' = IF \/ Breaks(consecutive_empty, n)
                         \/ Len(page_lens) + 1 = LastPage(total_records)
                      THEN "done" ELSE "page"
    /\ UNCHANGED <<total_records, notFetch>>

\* line 545-546 (the return), or the exception leaves the function
FetchReturn ==
    /\ fpc \in {"done", "failed"}
    /\ fpc' = "idle"
    /\ UNCHANGED <<total_records, page_lens, consecutive_empty, total_upserted,
                   notFetch>>

(***************************************************************************)
(* The token manager (utils/jwt_auth.py:38-152) and call_sync_api          *)
(* (api/sync.py:59-84).  Tokens are numbered in the order the login        *)
(* endpoint issues them; time is counted in hours.                         *)
(***************************************************************************)
\* What a login request comes to:
\*   "error"     the POST or raise_for_status raises (RequestException)
\*   "status"    the body's status is not 1 (ValueError, line 95-96)
\*   "no_token"  status 1 and no token in the body (ValueError, line 100-101)
\*   "hours"     status 1, a token, expiresIn "<hours>h"
\*   "other"     status 1, a token, expiresIn in another format
LoginResponses ==
    {[kind |-> k, hours |-> 0] : k \in {"error", "status", "no_token", "other"}}
    \cup {[kind |-> "hours", hours |-> h] : h \in 0..2}

FALLBACK_HOURS == 1

\* _calculate_expiry (line 113-129)
CalculateExpiry(response, now) ==
    IF response.kind = "hours" THEN now + response.hours ELSE now + FALLBACK_HOURS

Manager(tok, expiry, count) == [token |-> tok, token_expiry |-> expiry, issued |-> count]

\* login (line 70-111): the manager after the call, and whether it returned
Login(m, response, now) ==
    CASE response.kind \in {"error", "status"} ->
            [manager |-> m, returned |-> FALSE]
      [] response.kind = "no_token" ->
            [manager |-> [m EXCEPT !.token = None], returned |-> FALSE]
      [] OTHER ->
            [manager |-> Manager(Some(m.issued + 1),
                                 Some(CalculateExpiry(response, now)),
                                 m.issued + 1),
             returned |-> TRUE]

CachedWhateverExpiry(m, now) == m.token # None

\* get_token line 62: `self.token and self.token_expiry and now < expiry`
CachedIsValid(m, now) ==
    /\ m.token # None
    /\ m.token_expiry # None
    /\ now < OptValue(m.token_expiry)

\* get_token (line 53-68)
GetToken(m, response, now) ==
    IF CachedIsValid(m, now)
    THEN [manager |-> m, returned |-> TRUE]
    ELSE Login(m, response, now)

RetriesAnyError(status) == status # 200

\* call_sync_api line 72-73: `if e.response.status_code == 401`
RetriesOn(status) == status = 401

\* what a POST to the sync API comes to: a status code, or 0 when no
\* response came (timeout, connection error)
PostOutcomes == {200, 401, 500, 0}

NoGet ==
    [asked |-> FALSE, cache |-> "none", expiry |-> 0, now |-> 0,
     logged_in |-> FALSE, returned |-> FALSE, token |-> 0, login_token |-> 0]

NoApi ==
    [called |-> FALSE, first |-> 0, second |-> 0, refreshes |-> 0, posts |-> 0,
     carried |-> <<>>, refreshed |-> 0, fresh |-> FALSE, returned |-> FALSE, cached_after |-> None]

\* what get_token finds cached
CacheState(m, now) ==
    IF m.token = None \/ m.token_expiry = None THEN "none"
    ELSE IF now < OptValue(m.token_expiry) THEN "valid" ELSE "expired"

TokenOf(m) == IF m.token = None THEN 0 ELSE OptValue(m.token)

CurrentManager == Manager(token, token_expiry, issued)

SetManager(m) ==
    /\ token' = m.token
    /\ token_expiry' = m.token_expiry
    /\ issued' = m.issued

\* the answers a get_token call can meet: none is asked for when the cached
\* token is valid (no login request is sent)
ResponsesMet(m, now) ==
    IF CachedIsValid(m, now) THEN {[kind |-> "error", hours |-> 0]}
    ELSE LoginResponses

\* a get_token call of any caller
GetTokenCall ==
    /\ issued < MaxLogins
    /\ \E response \in ResponsesMet(CurrentManager, clock) :
         LET m == CurrentManager
             r == GetToken(m, response, clock)
         IN  /\ SetManager(r.manager)
             /\ last_get' = [asked |-> TRUE,
                             cache |-> CacheState(m, clock),
                             expiry |-> IF m.token_expiry = None THEN 0
                                        ELSE OptValue(m.token_expiry),
                             now |-> clock,
                             logged_in |-> r.manager.issued > m.issued
                                           \/ ~r.returned,
                             returned |-> r.returned,
                             token |-> IF r.returned THEN TokenOf(r.manager) ELSE 0,
                             login_token |-> IF r.manager.issued > m.issued
                                             THEN r.manager.issued ELSE 0]
    /\ UNCHANGED <<clock, last_api, notAuth>>

\* a login or refresh_token call (line 131-139: refresh_token is login)
RefreshTokenCall ==
    /\ issued < MaxLogins
    /\ \E response \in LoginResponses :
         SetManager(Login(CurrentManager, response, clock).manager)
    /\ UNCHANGED <<clock, last_get, last_api, notAuth>>

Tick ==
    /\ clock < MaxClock
    /\ clock' = clock + 1
    /\ UNCHANGED <<token, token_expiry, issued, last_get, last_api, notAuth>>

\* call_sync_api (api/sync.py:59-84).  header1: get_auth_header before the
\* try (line 65); first: the first POST; refresh: refresh_token (line 75);
\* header2: get_auth_header after it (line 76); second: the retry.
CallSyncApi ==
    /\ issued < MaxLogins
    /\ LET m0 == CurrentManager
           base == [NoApi EXCEPT !.called = TRUE]
       IN  \E r1 \in ResponsesMet(m0, clock) :
             LET header1 == GetToken(m0, r1, clock)
                 sent1 == [base EXCEPT !.posts = 1,
                                       !.carried = <<TokenOf(header1.manager)>>]
             IN  IF ~header1.returned
                 THEN /\ SetManager(header1.manager)
                      /\ last_api' = [base EXCEPT
                                        !.cached_after = header1.manager.token]
                 ELSE \E first \in PostOutcomes :
                   IF ~RetriesOn(first)
                   THEN /\ SetManager(header1.manager)
                        /\ last_api' = [sent1 EXCEPT
                                          !.first = first,
                                          !.returned = (first = 200),
                                          !.cached_after = header1.manager.token]
                   ELSE \E r2 \in LoginResponses :
                     LET refresh == Login(header1.manager, r2, clock)
                     IN  IF ~refresh.returned
                         THEN /\ SetManager(refresh.manager)
                              /\ last_api' = [sent1 EXCEPT
                                                !.first = first, !.refreshes = 1,
                                                !.cached_after = refresh.manager.token]
                         ELSE \E r3 \in ResponsesMet(refresh.manager, clock) :
                           LET header2 == GetToken(refresh.manager, r3, clock)
                           IN  /\ SetManager(header2.manager)
                               /\ IF ~header2.returned
                                  THEN last_api' =
                                         [sent1 EXCEPT
                                            !.first = first, !.refreshes = 1,
                                            !.refreshed = TokenOf(refresh.manager),
                                            !.fresh = CachedIsValid(refresh.manager, clock),
                                            !.cached_after = header2.manager.token]
                                  ELSE \E second \in PostOutcomes :
                                         last_api' =
                                           [sent1 EXCEPT
                                              !.first = first, !.second = second,
                                              !.posts = 2, !.refreshes = 1,
                                              !.refreshed = TokenOf(refresh.manager),
                                              !.fresh = CachedIsValid(refresh.manager, clock),
                                              !.carried = Append(@, TokenOf(header2.manager)),
                                              !.returned = (second = 200),
                                              !.cached_after = header2.manager.token]
    /\ UNCHANGED <<clock, last_get, notAuth>>

(***************************************************************************)
(* manual_upsert (api/sync.py:187-334)                                     *)
(***************************************************************************)
\* None
NULL == 0

\* pk_cols of the table, and its one other column
PK_COLS == <<"k1", "k2">>
Columns == {"k1", "k2", "v"}

\* the records of a batch: mappings from some of the columns to a value or
\* None
BatchRecords ==
    {r \in UNION {[c -> 0..2] : c \in SUBSET Columns} :
        /\ "k1" \in DOMAIN r => r["k1"] = 1
        /\ "k2" \in DOMAIN r
        /\ "v" \in DOMAIN r => r["v"] >= 1}

Batches == UNION {[1..n -> BatchRecords] : n \in 0..MaxBatch}

\* item.get(k)
Get(item, k) == IF k \in DOMAIN item THEN item[k] ELSE NULL

NeverNull(key) == FALSE

\* make_key line 205: `if None in key`
NoneIn(key) == \E i \in DOMAIN key : key[i] = NULL

\* make_key line 203: the tuple of the record's primary-key values
KeyOf(item) == [i \in DOMAIN PK_COLS |-> Get(item, PK_COLS[i])]

\* make_key raises ValueError (line 205-207)
MakeKeyRaises(item) == NoneIn(KeyOf(item))

NoResult == -1

ZeroCounts ==
    [insert_success |-> 0, insert_failed |-> 0,
     update_success |-> 0, update_failed |-> 0]

RECURSIVE CountRejected(_)
\* line 212-220: the number of records of the batch make_key raised on
CountRejected(batch) ==
    IF batch = <<>> THEN 0
    ELSE (IF MakeKeyRaises(Head(batch)) THEN 1 ELSE 0) + CountRejected(Tail(batch))

RECURSIVE AcceptedKeys(_)
\* line 212-220: the keys make_key returned, in the order of the batch
AcceptedKeys(batch) ==
    IF batch = <<>> THEN <<>>
    ELSE IF MakeKeyRaises(Head(batch)) THEN AcceptedKeys(Tail(batch))
         ELSE <<KeyOf(Head(batch))>> \o AcceptedKeys(Tail(batch))

StoredKeys(table) == {row[1] : row \in table}

\* line 195-196, 209-224: the call up to the query for existing keys
ManualUpsertCall(batch) ==
    /\ items' = batch
    /\ incoming_keys' = AcceptedKeys(batch)
    /\ invalid_records' = CountRejected(batch)
    /\ IF batch = <<>> \/ AcceptedKeys(batch) = <<>>
       THEN upc' = "done" /\ upsert_result' = 0
       ELSE upc' = "query" /\ upsert_result' = NoResult
    /\ existing_keys' = {}
    /\ to_insert' = <<>>
    /\ to_update' = <<>>
    /\ counts' = ZeroCounts
    /\ statements' = <<>>

\* a manual_upsert call of any caller
ManualUpsert ==
    /\ upc = "idle"
    /\ \E batch \in Batches : ManualUpsertCall(batch)
    /\ UNCHANGED <<table_rows, notMerge>>

\* line 226-259: the existing keys are read and the batch is split
UpsertSplit ==
    /\ upc = "query"
    /\ LET found == {incoming_keys[i] : i \in DOMAIN incoming_keys}
                    \cap StoredKeys(table_rows)
       IN  /\ existing_keys' = found
           /\ to_update' = SelectSeq(items, LAMBDA item :
                               ~MakeKeyRaises(item) /\ KeyOf(item) \in found)
           /\ to_insert' = SelectSeq(items, LAMBDA item :
                               ~MakeKeyRaises(item) /\ KeyOf(item) \notin found)
    /\ upc' = "write"
    /\ UNCHANGED <<items, incoming_keys, invalid_records, counts, table_rows,
                   statements, upsert_result, notMerge>>

\* a statement the call executed and what came of it: "done", "conflict"
\* (the table holds a row of the key: unique violation) or "refused" (the
\* database raised for another reason)
Statement(op, record, outcome) == [op |-> op, record |-> record, outcome |-> outcome]

\* db.execute(insert(table).values(record)); db.flush()
\* (a primary-key column takes no NULL)
InsertOutcome(table, record, db_ok) ==
    IF NoneIn(KeyOf(record)) THEN "refused"
    ELSE IF KeyOf(record) \in StoredKeys(table) THEN "conflict"
    ELSE IF db_ok THEN "done" ELSE "refused"

MatchesAny(row, record) == TRUE

\* line 312-314: WHERE every primary-key column equals the record's value
Matches(row, record) == row[1] = KeyOf(record)

InsertsDone == counts.insert_success + counts.insert_failed
UpdatesDone == counts.update_success + counts.update_failed

\* line 268-284: one record of to_insert, under its own savepoint.  The
\* statement fails on a key the table holds, or as the database decides.
UpsertInsert ==
    /\ upc = "write"
    /\ InsertsDone < Len(to_insert)
    /\ LET record == to_insert[InsertsDone + 1]
       IN  \E db_ok \in BOOLEAN :
             LET outcome == InsertOutcome(table_rows, record, db_ok)
             IN  /\ statements' = Append(statements, Statement("insert", record, outcome))
                 /\ IF outcome = "done"
                    THEN /\ table_rows' = table_rows \cup {<<KeyOf(record), Get(record, "v")>>}
                         /\ counts' = [counts EXCEPT !.insert_success = @ + 1]
                    ELSE /\ table_rows' = table_rows
                         /\ counts' = [counts EXCEPT !.insert_failed = @ + 1]
    /\ UNCHANGED <<upc, items, incoming_keys, invalid_records, existing_keys,
                   to_insert, to_update, upsert_result, notMerge>>

\* line 287-322: one record of to_update, under its own savepoint.  A record
\* of primary-key columns only is a successful no-op (line 304-308).
UpsertUpdate ==
    /\ upc = "write"
    /\ InsertsDone = Len(to_insert)
    /\ UpdatesDone < Len(to_update)
    /\ LET record == to_update[UpdatesDone + 1]
           update_data == DOMAIN record \ {PK_COLS[i] : i \in DOMAIN PK_COLS}
       IN  IF \E i \in DOMAIN PK_COLS : PK_COLS[i] \notin DOMAIN record
           THEN /\ counts' = [counts EXCEPT !.update_failed = @ + 1]
                /\ UNCHANGED <<table_rows, statements>>
           ELSE IF update_data = {}
           THEN /\ counts' = [counts EXCEPT !.update_success = @ + 1]
                /\ UNCHANGED <<table_rows, statements>>
           ELSE \E db_ok \in BOOLEAN :
                  /\ statements' = Append(statements,
                         Statement("update", record, IF db_ok THEN "done" ELSE "refused"))
                  /\ IF db_ok
                     THEN /\ table_rows' = {IF Matches(row, record)
                                            THEN <<row[1], record["v"]>> ELSE row :
                                            row \in table_rows}
                          /\ counts' = [counts EXCEPT !.update_success = @ + 1]
                     ELSE /\ table_rows' = table_rows
                          /\ counts' = [counts EXCEPT !.update_failed = @ + 1]
    /\ UNCHANGED <<upc, items, incoming_keys, invalid_records, existing_keys,
                   to_insert, to_update, upsert_result, notMerge>>

\* line 327-334
UpsertReturn ==
    /\ upc = "write"
    /\ InsertsDone = Len(to_insert)
    /\ UpdatesDone = Len(to_update)
    /\ upsert_result' = counts.insert_success + counts.update_success
    /\ upc' = "done"
    /\ UNCHANGED <<items, incoming_keys, invalid_records, existing_keys,
                   to_insert, to_update, counts, table_rows, statements, notMerge>>

(***************************************************************************)
(* upsert_data (api/sync.py:336-415) and its three strategies              *)
(***************************************************************************)
\* an element of the batch that is no mapping (a JSON null, a string)
NotAMapping == [none |-> NULL]

UpsertBatches == UNION {[1..n -> BatchRecords \cup {NotAMapping}] : n \in 0..MaxBatch}

\* table names given to upsert_data; "deo_master" has no model
\* (get_model_class, line 86-102)
UpsertTables == {"citizen_master", "district", "provision", "deo_master"}

ModelKnown(table_name) == table_name # "deo_master"

\* line 366-404
Strategy(table_name) ==
    IF table_name \in {"ml_citizen_master", "citizen_master"} THEN "manual"
    ELSE IF table_name \in {"bsk_master", "ml_bsk_master", "district", "ml_district",
                            "service_master", "services"}
         THEN "insert_only"
         ELSE "pure_insert"

\* sanitize_data line 111: record.items() raises on what is no mapping
SanitizeRaises(batch) == \E i \in DOMAIN batch : batch[i] = NotAMapping

\* sanitize_data line 113-114, 151: the record's columns of the table
CleanRecord(record) == [c \in DOMAIN record \cap Columns |-> record[c]]

RECURSIVE Sanitized(_)
\* sanitize_data line 110-157: a record left with no column is dropped
Sanitized(batch) ==
    IF batch = <<>> THEN <<>>
    ELSE IF DOMAIN CleanRecord(Head(batch)) = {} THEN Sanitized(Tail(batch))
         ELSE <<CleanRecord(Head(batch))>> \o Sanitized(Tail(batch))

NoUpsert == [table_name |-> "", raised |-> FALSE]

\* the call ends before any record is written: it returns 0 or it raises
UpsertEnds(batch, raises) ==
    /\ items' = batch
    /\ incoming_keys' = <<>>
    /\ invalid_records' = 0
    /\ existing_keys' = {}
    /\ to_insert' = <<>>
    /\ to_update' = <<>>
    /\ counts' = ZeroCounts
    /\ statements' = <<>>
    /\ upc' = "done"
    /\ upsert_result' = IF raises THEN NoResult ELSE 0

\* line 348-404 up to the first record's savepoint
UpsertData ==
    /\ upc = "idle"
    /\ \E table_name \in UpsertTables, batch \in UpsertBatches :
         IF batch = <<>>
         THEN /\ UpsertEnds(batch, FALSE)
              /\ upsert_call' = [table_name |-> table_name, raised |-> FALSE]
         ELSE IF ~ModelKnown(table_name) \/ SanitizeRaises(batch)
         THEN /\ UpsertEnds(batch, TRUE)
              /\ upsert_call' = [table_name |-> table_name, raised |-> TRUE]
         ELSE /\ upsert_call' = [table_name |-> table_name, raised |-> FALSE]
              /\ IF Sanitized(batch) = <<>>
                 THEN UpsertEnds(Sanitized(batch), FALSE)
                 ELSE IF Strategy(table_name) = "manual"
                 THEN ManualUpsertCall(Sanitized(batch))
                 ELSE /\ items' = Sanitized(batch)
                      /\ incoming_keys' = <<>>
                      /\ invalid_records' = 0
                      /\ existing_keys' = {}
                      /\ to_insert' = Sanitized(batch)
                      /\ to_update' = <<>>
                      /\ counts' = ZeroCounts
                      /\ statements' = <<>>
                      /\ upc' = "write"
                      /\ upsert_result' = NoResult
    /\ UNCHANGED <<table_rows, notUpsert>>

(***************************************************************************)
(* Initial states and specifications                                       *)
(***************************************************************************)
InitMeta ==
    /\ sync_metadata = {}
    /\ today = 1
    /\ last_call = NoCall

InitSchedVars ==
    /\ sync_lock = NoThread
    /\ sync_in_progress = FALSE
    /\ tpc = [t \in Threads |-> "idle"]
    /\ results = [t \in Threads |-> <<>>]
    /\ scheduled = [t \in Threads |-> FALSE]
    /\ skipped = [t \in Threads |-> NoThread]
    /\ regen_job = "none"
    /\ regen_wait = NoThread
    /\ regen_pc = "idle"
    /\ last_trigger = [result |-> "none", in_flight |-> FALSE]
    /\ run_end = "none"
    /\ admin_sync_in_progress = sync_in_progress
    /\ last_status = NoStatus

InitDumpVars ==
    /\ committed = [t \in DumpTables |-> {}]
    /\ adv_locks = {}
    /\ idle_locks = {}
    /\ spare_connection = [s \in Sessions |-> FALSE]
    /\ hash_seed = [s \in Sessions |-> 0]
    /\ dpc = [s \in Sessions |-> "idle"]
    /\ run = [s \in Sessions |-> IdleRun]
    /\ remote = <<>>

\* no lock file, no worker started
InitElectVars ==
    /\ lock_path = NoFile
    /\ inode_content = [i \in Inodes |-> NoPid]
    /\ flock_holder = [i \in Inodes |-> NoWorker]
    /\ inodes_used = 0
    /\ wpc = [w \in Workers |-> "new"]
    /\ handle = [w \in Workers |-> NoFile]
    /\ locked_pid = [w \in Workers |-> NoPid]
    /\ sched_started = [w \in Workers |-> FALSE]

InitFetchVars ==
    /\ fpc = "idle"
    /\ total_records = 0
    /\ page_lens = <<>>
    /\ consecutive_empty = 0
    /\ total_upserted = 0

\* JWTAuthManager.__init__ (line 44-51)
InitAuthVars ==
    /\ token = None
    /\ token_expiry = None
    /\ issued = 0
    /\ clock = 0
    /\ last_get = NoGet
    /\ last_api = NoApi

\* no call yet; the table holds rows of complete keys
InitMergeVars ==
    /\ upc = "idle"
    /\ items = <<>>
    /\ incoming_keys = <<>>
    /\ invalid_records = 0
    /\ existing_keys = {}
    /\ to_insert = <<>>
    /\ to_update = <<>>
    /\ counts = ZeroCounts
    /\ table_rows \in SUBSET {<<<<1, k2>>, NULL>> : k2 \in 1..2}
    /\ statements = <<>>
    /\ upsert_result = NoResult
    /\ upsert_call = NoUpsert

InitRest == InitFetchVars /\ InitAuthVars /\ InitMergeVars



InitCore ==
    /\ InitSchedVars
    /\ scheduler_running = FALSE
    /\ InitMeta
    /\ InitDumpVars
    /\ InitElectVars

InitFetch == InitCore /\ InitRest

NextFetch ==
    \/ FetchStart
    \/ FetchMeta
    \/ FetchPage
    \/ FetchReturn

SpecFetch == InitFetch /\ [][NextFetch]_vars

InitAuth == InitCore /\ InitRest

NextAuth ==
    \/ GetTokenCall
    \/ RefreshTokenCall
    \/ CallSyncApi
    \/ Tick

SpecAuth == InitAuth /\ [][NextAuth]_vars

InitMerge == InitCore /\ InitRest

NextMerge ==
    \/ ManualUpsert
    \/ UpsertSplit
    \/ UpsertInsert
    \/ UpsertUpdate
    \/ UpsertReturn

SpecMerge == InitMerge /\ [][NextMerge]_vars

NextUpsert ==
    \/ UpsertData
    \/ UpsertSplit
    \/ UpsertInsert
    \/ UpsertUpdate
    \/ UpsertReturn

SpecUpsert == InitMerge /\ [][NextUpsert]_vars

\* The process is the elected scheduler (start_scheduler ran to the end) or
\* one of the other workers.
InitSched ==
    /\ InitSchedVars
    /\ scheduler_running \in BOOLEAN
    /\ InitMeta
    /\ InitDumpVars
    /\ InitElectVars
    /\ InitRest

NextSched ==
    \/ \E t \in Threads : Entry(t)
    \/ \E t \in Threads : SetFlag(t)
    \/ \E t \in Threads : SyncOneTable(t)
    \/ \E t \in Threads : Summary(t)
    \/ \E t \in Threads : ClearFlag(t)
    \/ \E t \in Threads : Release(t)
    \/ TriggerSyncNow
    \/ CronFire
    \/ RegenStart
    \/ RegenEnd

SpecSched == InitSched /\ [][NextSched]_vars

NextStatus ==
    \/ NextSched
    \/ GetSchedulerStatus

\* one worker process with its admin endpoints
SpecStatus == InitSched /\ [][NextStatus]_vars

\* the thread that holds the guard takes its next step
RunStep ==
    \E t \in Threads :
        \/ SetFlag(t)
        \/ SyncOneTable(t)
        \/ Summary(t)
        \/ ClearFlag(t)
        \/ Release(t)

\* The thread of a run does run (every call in the loop carries a timeout),
\* a started scheduler runs a job that is due, and a regeneration ends.
\* Triggers may come or not.
SpecSchedFair ==
    /\ SpecSched
    /\ WF_vars(RunStep)
    /\ WF_vars(RegenStart)
    /\ WF_vars(RegenEnd)

\* The database as the setup script left it, with or without its
\* initialize_sync_metadata step.
InitMetaSpec ==
    /\ sync_metadata \in {{}, SetupRows}
    /\ today = 1
    /\ last_call = NoCall
    /\ InitSchedVars
    /\ scheduler_running = FALSE
    /\ InitDumpVars
    /\ InitElectVars
    /\ InitRest

NextMeta ==
    \/ \E target \in RequestNames, start_date \in OptionalStart,
          end_date \in OptionalEnd, force_full \in BOOLEAN,
          outcome \in {Raised, Returned(1)} :
            SyncData(SyncRequest(target, start_date, end_date, force_full), outcome)
    \/ NextDay

SpecMeta == InitMetaSpec /\ [][NextMeta]_vars

\* Two sessions of processes started with any seeds, each process's pool
\* holding the one connection its session works on, the tables empty or
\* filled by an earlier sync, the remote API answering every call of the
\* behaviour with the same records.  Only whether two seeds are equal matters,
\* so the first session's is fixed.
InitDump ==
    /\ \E rows \in {{}, Keys} : committed = [t \in DumpTables |-> rows]
    /\ adv_locks = {}
    /\ idle_locks = {}
    /\ spare_connection = [s \in Sessions |-> FALSE]
    /\ hash_seed \in {seeds \in [Sessions -> HashSeeds] : seeds[1] = 0}
    /\ dpc = [s \in Sessions |-> "idle"]
    /\ run = [s \in Sessions |-> IdleRun]
    /\ remote \in Responses
    /\ InitMeta
    /\ InitSchedVars
    /\ scheduler_running = FALSE
    /\ InitElectVars
    /\ InitRest

NextDump ==
    \/ \E s \in Sessions, table \in DumpTables : DumpStart(s, table)
    \/ \E s \in Sessions : DumpFetch(s)
    \/ \E s \in Sessions : DumpLock(s)
    \/ \E s \in Sessions : DumpDelete(s)
    \/ \E s \in Sessions : DumpInsert(s)
    \/ \E s \in Sessions : DumpSavepointCommit(s)
    \/ \E s \in Sessions : DumpUnlock(s)
    \/ \E s \in Sessions : DumpMeta(s)
    \/ \E s \in Sessions : DumpReturn(s)

SpecDump == InitDump /\ [][NextDump]_vars

\* Two sessions of processes whose pools (pool_size 20,
\* database/connection.py:24-34) hold further idle connections; the
\* tables empty, the response of at most one record.
InitPool ==
    /\ committed = [t \in DumpTables |-> {}]
    /\ adv_locks = {}
    /\ idle_locks = {}
    /\ spare_connection = [s \in Sessions |-> TRUE]
    /\ hash_seed \in {seeds \in [Sessions -> HashSeeds] : seeds[1] = 0}
    /\ dpc = [s \in Sessions |-> "idle"]
    /\ run = [s \in Sessions |-> IdleRun]
    /\ remote \in {records \in Responses : Len(records) <= 1}
    /\ InitMeta
    /\ InitSchedVars
    /\ scheduler_running = FALSE
    /\ InitElectVars
    /\ InitRest

SpecPool == InitPool /\ [][NextDump]_vars

\* Two sessions of one process; the tables empty or full; the response
\* empty or of one record that can be inserted.
InitOneProcess ==
    /\ \E rows \in {{}, Keys} : committed = [t \in DumpTables |-> rows]
    /\ adv_locks = {}
    /\ idle_locks = {}
    /\ spare_connection = [s \in Sessions |-> FALSE]
    /\ hash_seed = [s \in Sessions |-> 0]
    /\ dpc = [s \in Sessions |-> "idle"]
    /\ run = [s \in Sessions |-> IdleRun]
    /\ remote \in {records \in Responses :
                     Len(records) <= 1 /\ \A i \in DOMAIN records : records[i].kind = "ok"}
    /\ InitMeta
    /\ InitSchedVars
    /\ scheduler_running = FALSE
    /\ InitElectVars
    /\ InitRest

SpecOneProcess == InitOneProcess /\ [][NextDump]_vars

InitElect ==
    /\ InitElectVars
    /\ InitSchedVars
    /\ scheduler_running = FALSE
    /\ InitMeta
    /\ InitDumpVars
    /\ InitRest

NextElect ==
    \/ \E w \in Workers : WorkerStart(w)
    \/ \E w \in Workers : OpenLockFile(w)
    \/ \E w \in Workers : TryFlock(w)
    \/ \E w \in Workers : WritePid(w)
    \/ \E w \in Workers : RegisterAndStart(w)
    \/ \E w \in Workers : ReadLockFile(w)
    \/ \E w \in Workers : ProbePid(w)
    \/ \E w \in Workers : RemoveStale(w)
    \/ \E w \in Workers : SignalReceived(w)
    \/ \E w \in Workers : ShutdownEvent(w)
    \/ \E w \in Workers : CleanupUnlock(w)
    \/ \E w \in Workers : CleanupClose(w)
    \/ \E w \in Workers : CleanupRemove(w)
    \/ \E w \in Workers : SignalShutdown(w)
    \/ \E w \in Workers : Killed(w)

SpecElect == InitElect /\ [][NextElect]_vars

\* The workers boot on a machine where the lock file is absent or was left
\* by a process that is gone; none of them crashes or is shut down.
InitBoot ==
    /\ \E left \in BOOLEAN :
         /\ lock_path = IF left THEN 1 ELSE NoFile
         /\ inodes_used = IF left THEN 1 ELSE 0
         /\ inode_content = [i \in Inodes |-> IF left /\ i = 1 THEN StalePid ELSE NoPid]
    /\ flock_holder = [i \in Inodes |-> NoWorker]
    /\ wpc = [w \in Workers |-> "new"]
    /\ handle = [w \in Workers |-> NoFile]
    /\ locked_pid = [w \in Workers |-> NoPid]
    /\ sched_started = [w \in Workers |-> FALSE]
    /\ InitSchedVars
    /\ scheduler_running = FALSE
    /\ InitMeta
    /\ InitDumpVars
    /\ InitRest

NextBoot ==
    \/ \E w \in Workers : WorkerStart(w)
    \/ \E w \in Workers : OpenLockFile(w)
    \/ \E w \in Workers : TryFlock(w)
    \/ \E w \in Workers : WritePid(w)
    \/ \E w \in Workers : RegisterAndStart(w)
    \/ \E w \in Workers : ReadLockFile(w)
    \/ \E w \in Workers : ProbePid(w)
    \/ \E w \in Workers : RemoveStale(w)

SpecBoot == InitBoot /\ [][NextBoot]_vars

(***************************************************************************)
(* Properties                                                              *)
(***************************************************************************)
InRun(t) == tpc[t] \in {"setflag", "loop", "summary", "clearflag", "release"}

\* C1: when the insert of a record failed during the replace of a Dump-All
\* table, the committed contents of the table after the run are its contents
\* before the run (no other session having committed to the table meanwhile).
C1_FailedInsertLeavesTableUnchanged ==
    \A s \in Sessions :
        (dpc[s] = "done" /\ run[s].insert_failed > 0 /\ ~run[s].interfered)
        => committed[run[s].table] = run[s].before

\* C2: for every Dump-All table at most one session at a time is between its
\* delete-all and the end of its insert loop.
C2_OneReplaceAtATime ==
    \A s1, s2 \in Sessions :
        (dpc[s1] = "insert" /\ dpc[s2] = "insert" /\ run[s1].table = run[s2].table)
        => s1 = s2

\* C3: at most one live worker at a time has registered the weekly_sync job
\* and started its scheduler (a worker that began to shut down is not
\* counted).
C3_OneElectedScheduler ==
    \A w1, w2 \in Workers :
        (wpc[w1] = "serving" /\ sched_started[w1] /\
         wpc[w2] = "serving" /\ sched_started[w2])
        => w1 = w2

\* C4: while a sync_all_tables run started by a manual trigger is in flight,
\* every further trigger_sync_now call is rejected (409) - also a call that
\* arrives after the run's thread took the guard and before it set the
\* in-progress flag.
C4_TriggerRejectedWhileInFlight ==
    last_trigger.in_flight => last_trigger.result = "rejected"

\* C5: at most one thread of the process is inside a sync_all_tables run (it
\* is the holder of the guard, and only it is in the table loop), and a call
\* that finds a run in flight returns without syncing a table and without
\* releasing or changing the guard and the flag of the running one.
C5_OneRunAtATime ==
    /\ [](\A t, u \in Threads : InRun(t) /\ InRun(u) => t = u)
    /\ [](\A t \in Threads : InRun(t) => sync_lock = t)
    /\ [][\A t \in Threads :
            (tpc[t] = "entry" /\ sync_lock # NoThread /\ tpc'[t] # "entry")
            => /\ tpc'[t] = "idle"
               /\ sync_lock' = sync_lock
               /\ sync_in_progress' = sync_in_progress
               /\ results' = results]_vars

\* C5 witness: a call returned at the guard while another thread's run, which
\* held the guard then, is still in its table loop.
C5_Witness ==
    \E t, u \in Threads :
        /\ t # u
        /\ skipped[t] = u
        /\ tpc[t] = "idle"
        /\ tpc[u] = "loop"
        /\ Len(results[u]) >= 1
        /\ sync_lock = u

\* C6: regenerate_static_files never executes while a sync_all_tables run is
\* in flight in the process, and no run is in flight while it executes.
C6_RegenerationExcludesSync ==
    ~(regen_pc = "running" /\ \E t \in Threads : InFlight(t))

\* C9: a run that acquired the guard attempts the five tables of
\* TABLES_TO_SYNC once each, in their order, whatever failed: inside the loop
\* the recorded attempts are a proper prefix of TABLES_TO_SYNC, and after the
\* loop they are all of it, failures included.
C9_EveryTableOnceInOrder ==
    \A t \in Threads :
        /\ Len(results[t]) <= Len(TABLES_TO_SYNC)
        /\ \A i \in 1..Len(results[t]) : results[t][i].table = TABLES_TO_SYNC[i]
        /\ tpc[t] = "loop" => Len(results[t]) < Len(TABLES_TO_SYNC)
        /\ tpc[t] \in {"summary", "clearflag", "release"}
           => Len(results[t]) = Len(TABLES_TO_SYNC)

\* C9 witness: a run reached its summary with the first table failed and the
\* last one attempted and successful.
C9_Witness ==
    \E t \in Threads :
        /\ tpc[t] = "summary"
        /\ results[t][1].status = "failed"
        /\ results[t][Len(TABLES_TO_SYNC)].status = "success"

\* C10: at the end of a run (one whose try block ended without an exception)
\* the regeneration job has been scheduled by the run if and only if at
\* least one table's sync succeeded in it; when it was scheduled the job is
\* pending.
C10_RegenerationIffSuccess ==
    \A t \in Threads :
        (tpc[t] \in {"clearflag", "release"} /\ run_end # "raising")
        => /\ scheduled[t] <=> (\E i \in 1..Len(results[t]) :
                                    results[t][i].status = "success")
           /\ scheduled[t] => regen_job = "pending"

\* C10 witness: the run of one failed table and four successful ones has
\* scheduled the job.
C10_Witness ==
    \E t \in Threads :
        /\ tpc[t] = "clearflag"
        /\ scheduled[t]
        /\ regen_job = "pending"
        /\ Cardinality({i \in 1..Len(results[t]) : results[t][i].status = "failed"}) = 1

\* C11: after every run in which a table succeeded (the run scheduled the
\* job), regenerate_static_files is eventually executed - in every worker
\* process, elected or not.
C11_RegenerationEventuallyRuns ==
    \A t \in Threads : scheduled[t] ~> (regen_pc = "running")

\* C12: the step that ends a run, however its try block ended, leaves the
\* flag false and the guard free; whenever no run is in the process the flag
\* is false and the guard is free, so that trigger_sync_now does not reject;
\* and a call of sync_all_tables that reaches the guard while no run is in
\* the process starts a run.
C12_RunEndLeavesGuardFree ==
    /\ [][\A t \in Threads :
            (InRun(t) /\ ~InRun(t)')
            => /\ sync_lock' = NoThread
               /\ ~sync_in_progress'
               /\ ~TriggerRejected(sync_in_progress')]_vars
    /\ []((\A t \in Threads : ~InRun(t))
            => /\ sync_lock = NoThread
               /\ ~sync_in_progress
               /\ ~TriggerRejected(sync_in_progress))
    /\ [][\A t \in Threads :
            (tpc[t] = "entry" /\ tpc'[t] # "entry" /\ \A u \in Threads : ~InRun(u))
            => tpc'[t] = "setflag"]_vars

\* C12 witness: the previous run ended with an exception from scheduling the
\* job, and the run of a later manual trigger is in its table loop.
C12_Witness ==
    \E t \in ManualThreads :
        /\ run_end = "raised"
        /\ tpc[t] = "loop"
        /\ sync_lock = t
        /\ sync_in_progress
        /\ last_trigger.result = "started"

\* C13: the answer of get_scheduler_status carries sync_in_progress = true
\* when a run of the answering process has set the flag and not yet reset
\* it, and false when no run has.
C13_StatusReportsRunInFlight ==
    last_status.asked => (last_status.sync_in_progress <=> last_status.flag_set)

\* C14: once sync_table_paginated has returned or raised, the advisory lock
\* its run acquired is held by no connection: not by the session's, and not
\* by one left in the pool.
C14_LockReleasedAtReturn ==
    /\ idle_locks = {}
    /\ \A s \in Sessions :
          dpc[s] \in {"idle", "fetch", "lock", "meta", "done"}
          => \A h \in adv_locks : h[2] # s

\* C15: once three consecutive page calls were answered with no records, no
\* further page call is issued in the run, also when the announced total
\* implies more pages; and an empty page ends the loop before its last page
\* only as the third of three consecutive empty pages (empty pages separated
\* by a non-empty one do not add up).
C15_StopsAfterThreeEmptyPages ==
    /\ \A i \in 1..Len(page_lens) :
          (i + 2 <= Len(page_lens) /\ page_lens[i] = 0 /\ page_lens[i + 1] = 0
             /\ page_lens[i + 2] = 0)
          => (Len(page_lens) = i + 2 /\ fpc # "page")
    /\ (/\ fpc = "done"
        /\ Len(page_lens) >= 1
        /\ Len(page_lens) < MaxPages(total_records) + 1
        /\ page_lens[Len(page_lens)] = 0)
       => /\ Len(page_lens) >= 3
          /\ page_lens[Len(page_lens) - 1] = 0
          /\ page_lens[Len(page_lens) - 2] = 0

\* C15 witness: after an empty page, a full page and three more empty pages
\* the run has ended, one page before the last page the total implies.
C15_Witness ==
    /\ fpc = "done"
    /\ total_records = 10
    /\ page_lens = <<0, SYNC_PAGE_SIZE, 0, 0, 0>>

\* the totals of three pages, as 2500 is with a page size of 1000
ThreePageTotals == {total \in 1..MaxTotal : MaxPages(total) = 3}

\* C16 as stated: a fetch of an announced total of three pages that ends
\* without error has issued at least 3 and at most 4 page calls, whatever
\* the pages contained.
C16_ThreeToFourPageCalls ==
    (fpc = "done" /\ total_records \in ThreePageTotals)
    => (Len(page_lens) >= 3 /\ Len(page_lens) <= 4)

\* C16 amended: for every announced total > 0 the number of page calls is at
\* most ceil(total / page_size) + 1; a fetch of a total of three pages that
\* ends without error has issued at most 4 page calls, and at least 3 unless
\* it ended on a short page (non-empty, fewer records than the page size).
C16_PageCallsBounded ==
    /\ Len(page_lens) <= (total_records + SYNC_PAGE_SIZE - 1) \div SYNC_PAGE_SIZE + 1
    /\ (fpc = "done" /\ total_records \in ThreePageTotals)
       => /\ Len(page_lens) >= 1
          /\ Len(page_lens) <= 4
          /\ Len(page_lens) < 3
             => /\ page_lens[Len(page_lens)] > 0
                /\ page_lens[Len(page_lens)] < SYNC_PAGE_SIZE

\* C16 witness: a total of three pages, answered with two full pages and a
\* short one.
C16_Witness ==
    /\ fpc = "done"
    /\ total_records = 2 * SYNC_PAGE_SIZE + 1
    /\ page_lens = <<SYNC_PAGE_SIZE, SYNC_PAGE_SIZE, 1>>

\* C17: no page call is issued once the records received in the run have
\* reached the announced total (a fetch about to issue a page call has
\* received fewer).
C17_NoCallAfterTotalReached ==
    fpc = "page" => Received(page_lens) < total_records

\* C18: within one call_sync_api call a 401 answer to the first request, and
\* nothing else, causes one refresh_token; the request is sent at most
\* twice; the refresh having returned a token that stays the cached one, the
\* request is retried once and carries that token (a retry always carries
\* the token cached then, not the one of the first request); a 401 or any
\* other failure of the retry is raised with no further refresh or retry;
\* and a failure of the first request other than 401 is raised with no
\* refresh and no retry.
C18_OneRefreshOneRetry ==
    last_api.called
    => /\ last_api.refreshes <= 1
       /\ last_api.posts <= 2
       /\ last_api.refreshes = 1 <=> last_api.first = 401
       /\ last_api.posts = 2
          => /\ last_api.first = 401
             /\ last_api.refreshed # 0
             /\ last_api.carried[2] # last_api.carried[1]
             /\ Some(last_api.carried[2]) = last_api.cached_after
       /\ (/\ last_api.first = 401
           /\ last_api.refreshed # 0
           /\ last_api.fresh)
          => (last_api.posts = 2 /\ last_api.carried[2] = last_api.refreshed)
       /\ (last_api.posts = 2 /\ last_api.second # 200) => ~last_api.returned
       /\ (last_api.posts >= 1 /\ last_api.first \notin {200, 401})
          => (last_api.posts = 1 /\ last_api.refreshes = 0 /\ ~last_api.returned)
       /\ last_api.returned <=> (last_api.first = 200 \/ last_api.second = 200)

\* C18 witness: the first request and its retry were both answered 401; the
\* call did one refresh, sent the request twice and raised.
C18_Witness ==
    /\ last_api.called
    /\ last_api.first = 401
    /\ last_api.second = 401
    /\ last_api.refreshes = 1
    /\ last_api.posts = 2
    /\ ~last_api.returned

\* C19: get_token returns the cached token without a login only when its
\* expiry is in the future; when no token is cached or the cached expiry
\* has passed it performs a login, and what it returns is the token of that
\* login - after any sequence of calls, failed logins included.
C19_NoStaleCachedToken ==
    last_get.asked
    => /\ (last_get.returned /\ ~last_get.logged_in)
          => (last_get.cache = "valid" /\ last_get.expiry > last_get.now)
       /\ last_get.cache \in {"none", "expired"}
          => /\ last_get.logged_in
             /\ last_get.returned
                => (last_get.login_token # 0 /\ last_get.token = last_get.login_token)

\* C19 witness: a token was cached, its expiry passed, and get_token
\* returned the token of a new login.
C19_Witness ==
    /\ last_get.asked
    /\ last_get.cache = "expired"
    /\ last_get.returned
    /\ last_get.token = last_get.login_token
    /\ last_get.token > 1

\* a primary-key column of the record is null or absent
NullPrimaryKey(item) ==
    \E i \in DOMAIN PK_COLS :
        PK_COLS[i] \notin DOMAIN item \/ item[PK_COLS[i]] = NULL

NullKeyRecords == {i \in DOMAIN items : NullPrimaryKey(items[i])}

\* C20: in every manual_upsert call a record with a null or absent
\* primary-key column is in neither to_insert nor to_update, no INSERT or
\* UPDATE is executed for it and no row of a null key is stored, it is
\* counted in invalid_records, and every other record of the batch is in
\* to_insert or to_update and, at the return, was attempted.
C20_NullKeyRecordsSkipped ==
    /\ \A i \in DOMAIN to_insert : ~NullPrimaryKey(to_insert[i])
    /\ \A i \in DOMAIN to_update : ~NullPrimaryKey(to_update[i])
    /\ \A i \in DOMAIN statements : ~NullPrimaryKey(statements[i].record)
    /\ \A row \in table_rows : \A i \in DOMAIN row[1] : row[1][i] # NULL
    /\ upc # "idle" => invalid_records = Cardinality(NullKeyRecords)
    /\ upc = "write"
       => /\ Len(to_insert) + Len(to_update)
               = Len(items) - Cardinality(NullKeyRecords)
          /\ \A i \in DOMAIN items \ NullKeyRecords :
                \/ \E j \in DOMAIN to_insert : to_insert[j] = items[i]
                \/ \E j \in DOMAIN to_update : to_update[j] = items[i]
    /\ upc = "done"
       => /\ InsertsDone + UpdatesDone = Len(items) - Cardinality(NullKeyRecords)
          /\ upsert_result = counts.insert_success + counts.update_success
          /\ upsert_result <= Len(items) - Cardinality(NullKeyRecords)

\* C20 witness: a call has returned whose batch held a record of an absent
\* primary-key column, which was skipped, and a record that was inserted.
C20_Witness ==
    /\ upc = "done"
    /\ Len(items) = 2
    /\ "k1" \notin DOMAIN items[1]
    /\ invalid_records = 1
    /\ counts.insert_success = 1
    /\ upsert_result = 1

\* the record of the batch that gives the values of the key last
LastGiven(key) ==
    items[CHOOSE i \in DOMAIN items :
            /\ ~NullPrimaryKey(items[i])
            /\ KeyOf(items[i]) = key
            /\ \A j \in DOMAIN items :
                 (~NullPrimaryKey(items[j]) /\ KeyOf(items[j]) = key) => j <= i]

\* C21: after a manual_upsert call in which the database refused no
\* statement for a reason of its own, the table holds for every non-null key
\* of the batch exactly one row, and the row's non-key field is the value the
\* batch gives for the key (of two records of one key, the later one).
C21_StorageEqualsBatch ==
    (/\ upc = "done"
     /\ \A j \in DOMAIN statements : statements[j].outcome # "refused")
    => \A i \in DOMAIN items \ NullKeyRecords :
          LET key == KeyOf(items[i])
              stored == {row \in table_rows : row[1] = key}
          IN  /\ Cardinality(stored) = 1
              /\ "v" \in DOMAIN LastGiven(key)
                 => \A row \in stored : row[2] = LastGiven(key)["v"]

BatchKeys == {KeyOf(items[i]) : i \in DOMAIN items \ NullKeyRecords}

OnlyKeyFields(record) == DOMAIN record \subseteq {PK_COLS[i] : i \in DOMAIN PK_COLS}

\* C27: every step of a manual_upsert call leaves the rows of keys that are
\* not in the batch as they were and adds no row of such a key; a step that
\* executes an UPDATE changes rows of that record's key only; and the step
\* for an update record of key fields only changes no row, executes no
\* statement and counts one success.
C27_OnlyBatchKeysChange ==
    [][/\ \A row \in table_rows \cup table_rows' :
            row[1] \notin BatchKeys' => (row \in table_rows /\ row \in table_rows')
       /\ (Len(statements') > Len(statements)
           /\ statements'[Len(statements')].op = "update")
          => \A row \in table_rows :
                row[1] # KeyOf(statements'[Len(statements')].record)
                => row \in table_rows'
       /\ (/\ upc = "write"
           /\ UpdatesDone' > UpdatesDone
           /\ OnlyKeyFields(to_update[UpdatesDone + 1]))
          => /\ table_rows' = table_rows
             /\ statements' = statements
             /\ counts'.update_success = counts.update_success + 1]_vars

\* C27 witness: the table held rows of two keys, the call updated the row of
\* the one key of its batch and has returned; the other row is as it was.
C27_Witness ==
    /\ upc = "done"
    /\ Len(statements) = 1
    /\ statements[1].op = "update"
    /\ statements[1].outcome = "done"
    /\ BatchKeys = {<<1, 1>>}
    /\ <<<<1, 1>>, 2>> \in table_rows
    /\ <<<<1, 2>>, NULL>> \in table_rows

\* C22: an upsert_data call that has ended raised only if its table is
\* unknown or has no primary key (every table that has a model has one); when
\* it has not raised, every record sanitize_data kept was given its statement
\* or, in the manual strategy, skipped for a null key, the records whose
\* INSERT was executed without error are stored, and the count returned is
\* the number of records that succeeded.
C22_RaisesOnlyForStructure ==
    (upc = "done" /\ upsert_call.table_name # "")
    => /\ upsert_call.raised => ~ModelKnown(upsert_call.table_name)
       /\ ~upsert_call.raised
          => /\ InsertsDone + UpdatesDone + invalid_records = Len(items)
             /\ upsert_result = counts.insert_success + counts.update_success
             /\ \A j \in DOMAIN statements :
                  (statements[j].op = "insert" /\ statements[j].outcome = "done")
                  => KeyOf(statements[j].record) \in StoredKeys(table_rows)

\* a sync_data call of a Paginated table has been made in this step
PaginatedCall ==
    /\ last_call'.calls = last_call.calls + 1
    /\ last_call'.outcome \in {"success", "failed"}
    /\ ExternalName(last_call'.request.target_table) \in PAGINATED_TABLES

\* the date the table's cursor row holds, None when there is no row or the
\* row holds no date
CursorDate(rows, target_table) ==
    IF FirstRow(rows, target_table) = None THEN None
    ELSE OptValue(FirstRow(rows, target_table)).last_sync_from_date

\* C23: the start date of a sync_data call of a Paginated table is the
\* request's start_date when it names one; else the date held by the cursor
\* row of the requested name when there is one and force_full is false; else
\* the default.
C23_StartDatePrecedence ==
    [][PaginatedCall
       => LET request == last_call'.request
              stored == CursorDate(sync_metadata, request.target_table)
          IN  last_call'.from_date =
                IF request.start_date # None THEN OptValue(request.start_date)
                ELSE IF stored # None /\ ~request.force_full THEN OptValue(stored)
                ELSE DEFAULT_FROM_DATE]_vars

\* C29: a sync_data call of a Paginated table that failed leaves the date of
\* the cursor row as it was, and one that succeeded sets it to the call's
\* end date; and a call that names no start date (and does not force a full
\* sync) of a table that had a successful run starts at the end date of the
\* most recent successful run of that table.
C29_CursorFollowsSuccess ==
    [][PaginatedCall
       => LET request == last_call'.request
              table == ExternalName(request.target_table)
          IN  /\ last_call'.outcome = "failed"
                 => CursorDate(sync_metadata', request.target_table)
                      = CursorDate(sync_metadata, request.target_table)
              /\ last_call'.outcome = "success"
                 => CursorDate(sync_metadata', request.target_table)
                      = Some(last_call'.end_date)
              /\ (/\ request.start_date = None
                  /\ ~request.force_full
                  /\ last_call.success_end[table] # None)
                 => last_call'.from_date = OptValue(last_call.success_end[table])]_vars

\* the session's run has received records and has ended its replace without
\* an exception; sync_data's db.commit() (line 619) is its next statement
AtCommit(s) == dpc[s] = "meta" /\ ~run[s].raised /\ remote # <<>>

\* C24: a session whose replace of a Dump-All table is about to be committed
\* holds the table's advisory lock (the commit comes before the release).
C24_CommitUnderLock ==
    \A s \in Sessions :
        AtCommit(s) => <<LockId(hash_seed[s], run[s].table), s>> \in adv_locks

\* the session's run has computed its lock id (line 454)
HasLockId(s) == dpc[s] \in {"lock", "delete", "insert", "sp_commit", "unlock"}

\* C25: two runs that replace the same Dump-All table, in whichever
\* processes, have computed the same advisory-lock id.
C25_LockIdStable ==
    \A s, u \in Sessions :
        (HasLockId(s) /\ HasLockId(u) /\ run[s].table = run[u].table)
        => LockId(hash_seed[s], run[s].table) = LockId(hash_seed[u], run[u].table)

\* C28: when the remote API answers a Dump-All sync with no record, the run
\* takes no advisory lock and deletes and inserts nothing, the committed
\* contents of the table stay what they were when the run began, and the
\* step that ends a run without exception leaves the table's cursor row at
\* SUCCESS with a count of 0.
C28_EmptyResponseChangesNothing ==
    /\ [](remote = <<>>
          => \A s \in Sessions :
                /\ \A h \in adv_locks \cup idle_locks : h[2] # s
                /\ run[s].deleted = {}
                /\ run[s].inserted = {}
                /\ dpc[s] # "idle" => committed[run[s].table] = run[s].before)
    /\ [][\A s \in Sessions :
            (remote = <<>> /\ dpc[s] = "meta" /\ dpc'[s] = "done" /\ ~run[s].raised)
            => /\ committed' = committed
               /\ \E row \in sync_metadata' :
                    /\ row.table_name = run[s].table
                    /\ row.last_sync_status = "SUCCESS"
                    /\ row.total_records = Some(0)]_vars

\* C28 witness: the table held rows, the API answered with no record, and
\* the run has ended without exception; the rows are there.
C28_Witness ==
    /\ remote = <<>>
    /\ \E s \in Sessions :
         /\ dpc[s] = "done"
         /\ ~run[s].raised
         /\ run[s].before = Keys
         /\ committed[run[s].table] = Keys
         /\ \E row \in sync_metadata :
              row.table_name = run[s].table /\ row.total_records = Some(0)

\* start_scheduler has returned in the worker
HasReturned(w) == wpc[w] \in {"serving", "standby"}

\* C26: when no worker crashes or is shut down, once start_scheduler has
\* returned in every worker, at least one worker has registered the weekly
\* job and started its scheduler.
C26_SomeWorkerElected ==
    (\A w \in Workers : HasReturned(w))
    => \E w \in Workers : wpc[w] = "serving" /\ sched_started[w]

\* C26 witness: every call has returned; one worker stood down, and one had
\* found the pid of a process that is gone, removed the file and retried.
C26_Witness ==
    /\ \A w \in Workers : HasReturned(w)
    /\ \E w \in Workers : wpc[w] = "standby"
    /\ \E w \in Workers : locked_pid[w] = StalePid
    /\ \E w \in Workers : wpc[w] = "serving"

\* C30: a step in which the login endpoint issued no token (every login or
\* refresh_token call of the step failed) leaves jwt_manager.token and
\* jwt_manager.token_expiry as they were; and where one of the two changes,
\* a token was issued and both hold a value afterwards.
C30_FailedLoginKeepsToken ==
    [][/\ issued' = issued => (token' = token /\ token_expiry' = token_expiry)
       /\ (token' # token \/ token_expiry' # token_expiry)
          => (issued' > issued /\ token' # None /\ token_expiry' # None)]_vars

\* C7: after a sync_data run that ended in failure, a SyncMetadata row of the
\* requested table exists and its last_sync_status is FAILED - also when the
\* table had no row before the run.
C7_FailedRunLeavesFailedCursor ==
    last_call.outcome = "failed"
    => \E r \in sync_metadata :
          /\ r.table_name = last_call.request.target_table
          /\ r.last_sync_status = "FAILED"

\* C8: there is at most one SyncMetadata row per synced table, whatever
\* accepted names the table was requested under.
C8_OneCursorRowPerTable ==
    \A table \in ALL_SYNCABLE_TABLES :
        Cardinality({r \in sync_metadata : ExternalName(r.table_name) = table}) <= 1

=============================================================================
